---- MODULE Spec2Model ----
(***************************************************************************)
(* A model of diskuto-sync's replication engine (src/src/lib.ts, the       *)
(* current Sync class at lines 373-623): the constructor's configuration   *)
(* check, the per-user merge loop (#syncUser) with its copy operator       *)
(* (#copyItem), the discovery phase of sync() with its deduplicating task  *)
(* map, and the bounded worker pool (#syncUsers).                          *)
(*                                                                         *)
(* Servers are identified by their index in config.servers.  An item is a  *)
(* record [timestampMsUtc, signature]; a signature is a sequence of bytes. *)
(* The transport client (getUserItems, getItemBytes, putItem, getProfile)  *)
(* is the environment: getItemBytes may answer null and putItem may        *)
(* reject, chosen nondeterministically at the call.                        *)
(***************************************************************************)
EXTENDS Integers, Sequences, FiniteSets, TLC

VARIABLES
    servers,        \* config.servers: sequence of [isDest: BOOLEAN]
    mode,           \* opts.sync of the user being synchronised
    store,          \* store[s]: the set of items server s holds for the user
    initial,        \* store as it was when the first run started (history)
    pc,             \* position of the engine
    peekers,        \* peekers[s]: items server s's cursor has not yet consumed
    alreadySyncd,   \* #syncUser's counter
    cp,             \* the last iteration: its tip, partition, copy and position
    run,            \* number of the current run of the merge loop
    faults,         \* how many transport calls have failed so far
    errors,         \* how many 'error' end events (earlier class: 'done' with an
                    \* error) the Logger has received
    tips,           \* the item reconciled by each iteration of this run, in order
    log,            \* this run of the merge loop: network calls and log events
    users,          \* opts.users of sync(): the ids, in the order of the config
    userIdx,        \* sync()'s position in opts.users
    usersToSync,    \* sync()'s task map, in insertion order
    status,         \* status[k]: how far the k-th task of #syncUsers has come
    via,            \* via[id]: how many follow-list entries added id so far
    supplied,       \* the ids for which some path gave a non-empty name
    missing,        \* the configured ids whose profile no server had
    resolved,       \* the last pass of sync()'s loop: user.id, user.sync, profile.follows
    compared,       \* the two entries given to the comparators, then their results
    profileSync,    \* the answers given to #syncLatestProfile, then its outcome
    tasks           \* tasks[k]: the k-th call of syncUser in the pool: where it is
                    \* suspended, its cursors, its counter, its iteration, its events

mergeVars == <<mode, store, initial, peekers, alreadySyncd, cp, run, tips, log>>
schedVars == <<users, userIdx, usersToSync, status, via, supplied, missing, resolved>>
vars == <<servers, pc, faults, errors, mergeVars, schedVars, compared, profileSync,
          tasks>>

----------------------------------------------------------------------------
(* Bounds of the model.                                                    *)

NumServers == 3
MaxCount == 2
MaxListed == 52
NumRuns == 2
MaxFaults == 1

----------------------------------------------------------------------------
(* Items and their order (src/src/sort.ts).                                *)

Min(S) == CHOOSE x \in S : \A y \in S : x <= y
Max(S) == CHOOSE x \in S : \A y \in S : x >= y

(* bytes without its last line: equal over the common length is equal.    *)
bytesCommonLength(a, b) ==
    LET len == Min({Len(a), Len(b)})
        diff == {i \in 1..len : a[i] # b[i]}
    IN  IF diff # {} THEN a[Min(diff)] - b[Min(diff)] ELSE 0

bytes(a, b) ==
    LET len == IF Len(a) < Len(b) THEN Len(a) ELSE Len(b)
        diff == {i \in 1..len : a[i] # b[i]}
    IN  IF diff # {}
        THEN a[Min(diff)] - b[Min(diff)]
        ELSE Len(a) - Len(b)

itemListEntry(a, b) ==
    LET cmp == a.timestampMsUtc - b.timestampMsUtc
    IN  IF cmp # 0 THEN cmp ELSE bytes(a.signature, b.signature)

(* itemListEntryDesc without the factor -1.                               *)
itemListEntryDescSameSign(a, b) == itemListEntry(a, b)

itemListEntryDesc(a, b) == (-1) * itemListEntry(a, b)

(* The items a user may have: two distinct items that share a timestamp    *)
(* and one older item.                                                     *)
Items ==
    { [timestampMsUtc |-> 2, signature |-> <<1>>],
      [timestampMsUtc |-> 2, signature |-> <<2>>],
      [timestampMsUtc |-> 1, signature |-> <<3>>] }

(* Items of pairwise distinct timestamps: those at 300, 200 and 100 with   *)
(* the signatures a, b and c.                                              *)
DistinctItems ==
    { [timestampMsUtc |-> 300, signature |-> <<97>>],
      [timestampMsUtc |-> 200, signature |-> <<98>>],
      [timestampMsUtc |-> 100, signature |-> <<99>>] }

(* The n newest of a long list of items, one per timestamp 1, 2, ...      *)
ListedItems(n) == {[timestampMsUtc |-> t, signature |-> <<0, t>>] : t \in 1..n}

RECURSIVE SortDesc(_)
SortDesc(S) ==
    IF S = {} THEN <<>>
    ELSE LET first == CHOOSE x \in S : \A y \in S : itemListEntryDesc(x, y) <= 0
         IN  <<first>> \o SortDesc(S \ {first})

(* client.getUserItems(user.id): the server's items, newest first.         *)
getUserItems(s) == SortDesc(store[s])

----------------------------------------------------------------------------
(* Helpers over sequences.                                                 *)

Range(q) == {q[i] : i \in 1..Len(q)}

(* The servers by index, in the order of config.servers.                   *)
ServerIds == [s \in 1..Len(servers) |-> s]

SyncModes ==
    {[mode |-> "full"]} \cup {[mode |-> "latest", count |-> k] : k \in 1..MaxCount}

(* No iteration yet.  Of an iteration: its tip, the signature of the item, *)
(* the partition, the source and the destinations of its copy, the answers *)
(* of the transport so far (found, failAt); and where it stands: the       *)
(* peeks of the round that have resolved, the length of the log when       *)
(* #copyItem was called, the transport calls of the copy that have         *)
(* returned, the matches whose cursor has been advanced, and the cursors   *)
(* as the peeks of its round found them.                                   *)
NoCopy == [tip |-> 0, signature |-> <<>>, matches |-> <<>>, others |-> <<>>,
           source |-> 0, destinations |-> <<>>, found |-> TRUE, failAt |-> 0,
           logicError |-> FALSE, peeked |-> 0, base |-> 0, calls |-> 0,
           advanced |-> 0, cursors |-> <<>>]

----------------------------------------------------------------------------
(* Sync.constructor, lib.ts 377-387.                                       *)

(* The check without its second test (no destination is accepted).         *)
ConfigOkNoDestTest(cfg) == ~(Len(cfg) < 2)

ConfigOk(cfg) ==
    /\ ~(Len(cfg) < 2)
    /\ ~(Cardinality({i \in 1..Len(cfg) : cfg[i].isDest}) = 0)

Construct ==
    /\ pc = "new"
    /\ pc' = IF ConfigOk(servers) THEN "ready" ELSE "configError"
    /\ UNCHANGED <<tasks, compared, profileSync, servers, faults, errors, mergeVars, schedVars>>

----------------------------------------------------------------------------
(* Sync.syncUser, lib.ts 461-479, and #syncUser, lib.ts 481-547.           *)

(* syncUser up to the first evaluation of the loop condition: the log      *)
(* entry is started and one peekable cursor per server is created.         *)
SyncUserStart ==
    /\ pc = "ready"
    /\ log' = <<[type |-> "start", event |-> "syncUserItems"]>>
                  \o [s \in 1..Len(servers) |-> [type |-> "getUserItems", server |-> s]]
    /\ peekers' = [s \in 1..Len(servers) |-> getUserItems(s)]
    /\ alreadySyncd' = 0
    /\ cp' = NoCopy
    /\ tips' = <<>>
    /\ pc' = "loop"
    /\ UNCHANGED <<tasks, compared, profileSync, servers, mode, store, initial, run, faults, errors, schedVars>>

(* The loop condition off by one.                                          *)
moreToSyncOffByOne ==
    IF mode.mode = "full" THEN TRUE ELSE alreadySyncd <= mode.count

(* moreToSync(), lib.ts 484-489, for opts.sync and the counter.            *)
moreToSyncOf(sync, count) ==
    IF sync.mode = "full" THEN TRUE ELSE count < sync.count

moreToSync == moreToSyncOf(mode, alreadySyncd)

(* The timestamps of the cursors that still have a value, lib.ts 511-514.  *)
TimestampsOf(cursors) ==
    {cursors[s][1].timestampMsUtc : s \in {t \in 1..Len(servers) : cursors[t] # <<>>}}

Timestamps == TimestampsOf(peekers)

(* The tip taken as the oldest of the peeked timestamps.                   *)
TipOldest == Min(Timestamps)

TipOf(cursors) == Max(TimestampsOf(cursors))

Tip == TipOf(peekers)

(* The partition predicate without its test "!t.nextValue.done": an       *)
(* exhausted cursor counts as a match.                                     *)
MatchesDone(tip) ==
    LET isMatch(s) == peekers[s] = <<>> \/ peekers[s][1].timestampMsUtc = tip
    IN  SelectSeq(ServerIds, isMatch)

(* lazy(tips).partition(...), lib.ts 521-522: both parts keep the order of *)
(* config.servers.                                                         *)
MatchesOf(cursors, tip) ==
    LET isMatch(s) == cursors[s] # <<>> /\ cursors[s][1].timestampMsUtc = tip
    IN  SelectSeq(ServerIds, isMatch)

Matches(tip) == MatchesOf(peekers, tip)

(* No partition: every server is among the others.                         *)
OthersAll(tip) == ServerIds

(* The partition whose second part leaves out the exhausted cursors.       *)
OthersNotDone(tip) ==
    LET isOther(s) == peekers[s] # <<>> /\ peekers[s][1].timestampMsUtc # tip
    IN  SelectSeq(ServerIds, isOther)

OthersOf(cursors, tip) ==
    LET isOther(s) == ~(cursors[s] # <<>> /\ cursors[s][1].timestampMsUtc = tip)
    IN  SelectSeq(ServerIds, isOther)

Others(tip) == OthersOf(peekers, tip)

(* The choice of the last of the list.                                      *)
chooseLast(items) == items[Len(items)]

choose(items) == items[1]

(* #copyItem without its filter: every other server is written.           *)
DestinationsUnfiltered(others) == others

(* #copyItem's filter, lib.ts 551.                                         *)
Destinations(others) ==
    LET isDest(s) == servers[s].isDest
    IN  SelectSeq(others, isDest)

(* A peek of the round is awaited, lib.ts 500-506: the loop condition      *)
(* `more` held at the top of the loop, or an earlier peek of the round has *)
(* resolved.                                                               *)
Peeking(more) == (pc = "loop" /\ more) \/ pc = "peek"

(* The peek awaited is that of the last cursor.                            *)
LastPeek == cp.peeked + 1 = Len(servers)

(* The loop ends (condition false at the top of the loop, or the last peek *)
(* of a round resolves with every cursor exhausted, lib.ts 515-518):       *)
(* #syncUser returns and syncUser ends its log entry with success.         *)
LoopExit ==
    /\ \/ pc = "loop" /\ ~moreToSync
       \/ Peeking(moreToSync) /\ LastPeek /\ Timestamps = {}
    /\ log' = log \o <<[type |-> "end", event |-> "syncUserItems", result |-> "success"]>>
    /\ pc' = "done"
    /\ cp' = [cp EXCEPT !.peeked = 0]
    /\ UNCHANGED <<tasks, compared, profileSync, servers, mode, store, initial, peekers, alreadySyncd, run, faults, errors, tips, schedVars>>

(* The items the servers can hold, over the runs modelled.                 *)
AllItems == Items \cup DistinctItems \cup ListedItems(MaxListed + 1)

(* The item with this signature (an item is determined by its signature).  *)
ItemOf(signature) == CHOOSE it \in AllItems : it.signature = signature

(* The log events of one pass of "for (const dest of destinations)".       *)
Started(source, dest, signature) ==
    [type |-> "start", event |-> "copyItem", dest |-> dest, src |-> source,
     signature |-> signature]
Ended(source, dest, signature, result) ==
    [type |-> "end", event |-> "copyItem", dest |-> dest, src |-> source,
     signature |-> signature, result |-> result]
Put(dest, signature, ok) ==
    [type |-> "putItem", server |-> dest, signature |-> signature, ok |-> ok]

(* The 'error' end events among the events of a call.                     *)
ErrorEnds(events) ==
    Cardinality({i \in 1..Len(events) :
                    events[i].type = "end" /\ events[i].result = "error"})

RECURSIVE PushEventsRefetch(_, _, _, _, _)
(* The passes with the item read again from the source in each pass after  *)
(* the first.                                                              *)
PushEventsRefetch(source, destinations, signature, failAt, i) ==
    IF i > Len(destinations) THEN <<>>
    ELSE (IF i > 1
          THEN <<[type |-> "getItemBytes", server |-> source,
                  signature |-> signature, found |-> TRUE]>>
          ELSE <<>>)
         \o (IF i = failAt
             THEN <<Started(source, destinations[i], signature),
                    Put(destinations[i], signature, FALSE)>>
             ELSE <<Started(source, destinations[i], signature),
                    Put(destinations[i], signature, TRUE),
                    Ended(source, destinations[i], signature, "success")>>
                  \o PushEventsRefetch(source, destinations, signature, failAt, i + 1))

(* The passes with every entry started and every push issued before the  *)
(* first push is awaited.                                                  *)
PushEventsTogether(source, destinations, signature, failAt, i) ==
    LET n == Len(destinations)
        returned[j \in 0..n] ==
            IF j = 0 THEN <<>>
            ELSE returned[j - 1]
                 \o (IF j = failAt
                     THEN <<Put(destinations[j], signature, FALSE)>>
                     ELSE <<Put(destinations[j], signature, TRUE),
                            Ended(source, destinations[j], signature, "success")>>)
    IN  [j \in 1..n |-> Started(source, destinations[j], signature)]
            \o returned[IF failAt = 0 THEN n ELSE failAt]

RECURSIVE PushEvents(_, _, _, _, _)
(* The passes i, i+1, ... of the loop over the destinations when the item  *)
(* was read: each starts an entry and pushes; a push that rejects (the     *)
(* pass failAt) ends the loop by its exception, the entry left open.       *)
PushEvents(source, destinations, signature, failAt, i) ==
    IF i > Len(destinations) THEN <<>>
    ELSE IF i = failAt
         THEN <<Started(source, destinations[i], signature),
                Put(destinations[i], signature, FALSE)>>
         ELSE <<Started(source, destinations[i], signature),
                Put(destinations[i], signature, TRUE),
                Ended(source, destinations[i], signature, "success")>>
              \o PushEvents(source, destinations, signature, failAt, i + 1)

(* #copyItem with the fetch made before the test for no destination.      *)
copyItemFetchFirst(sources, others, signature, found, failAt) ==
    LET destinations == Destinations(others)
        source == choose(sources)
        fetch == <<[type |-> "getItemBytes", server |-> source,
                    signature |-> signature, found |-> found]>>
    IN  IF Len(destinations) = 0
        THEN [destinations |-> destinations, source |-> source, events |-> fetch,
              written |-> {}, threw |-> FALSE]
        ELSE IF ~found
        THEN [destinations |-> destinations, source |-> source,
              events |-> fetch \o <<Started(source, destinations[1], signature),
                                    Ended(source, destinations[1], signature, "error")>>,
              written |-> {}, threw |-> FALSE]
        ELSE [destinations |-> destinations, source |-> source,
              events |-> fetch \o PushEvents(source, destinations, signature, failAt, 1),
              written |-> {destinations[i] : i \in
                              1..(IF failAt = 0 THEN Len(destinations) ELSE failAt - 1)},
              threw |-> failAt # 0]

(* #copyItem, lib.ts 549-579, for the environment's answers `found` (does  *)
(* getItemBytes return the bytes) and `failAt` (the pass whose putItem     *)
(* rejects, 0 for none).  The result: the restricted destinations, the     *)
(* source, the events in order, the destinations written, and whether the  *)
(* call threw.                                                             *)
copyItem(sources, others, signature, found, failAt) ==
    LET destinations == Destinations(others)
        source == choose(sources)
    IN  IF Len(destinations) = 0
        THEN [destinations |-> destinations, source |-> 0, events |-> <<>>,
              written |-> {}, threw |-> FALSE]
        ELSE IF ~found
        THEN [destinations |-> destinations, source |-> source,
              events |-> <<[type |-> "getItemBytes", server |-> source,
                            signature |-> signature, found |-> FALSE],
                           Started(source, destinations[1], signature),
                           Ended(source, destinations[1], signature, "error")>>,
              written |-> {}, threw |-> FALSE]
        ELSE [destinations |-> destinations, source |-> source,
              events |-> <<[type |-> "getItemBytes", server |-> source,
                            signature |-> signature, found |-> TRUE]>>
                         \o PushEvents(source, destinations, signature, failAt, 1),
              written |-> {destinations[i] : i \in
                              1..(IF failAt = 0 THEN Len(destinations) ELSE failAt - 1)},
              threw |-> failAt # 0]

RECURSIVE NotReadEvents(_, _, _, _)
(* The passes of the loop over the destinations when the item was not      *)
(* read: each logs "starting" and "done" with the error, then `continue`.  *)
NotReadEvents(source, destinations, signature, i) ==
    IF i > Len(destinations) THEN <<>>
    ELSE <<Started(source, destinations[i], signature),
           Ended(source, destinations[i], signature, "error")>>
         \o NotReadEvents(source, destinations, signature, i + 1)

(* The #copyItem of the earlier syncUser, lib.ts 110-142.                  *)
copyItemMaxCount(sources, others, signature, found, failAt) ==
    LET destinations == Destinations(others)
        source == choose(sources)
    IN  IF Len(destinations) = 0
        THEN [destinations |-> destinations, source |-> 0, events |-> <<>>,
              written |-> {}, threw |-> FALSE]
        ELSE IF ~found
        THEN [destinations |-> destinations, source |-> source,
              events |-> <<[type |-> "getItemBytes", server |-> source,
                            signature |-> signature, found |-> FALSE]>>
                         \o NotReadEvents(source, destinations, signature, 1),
              written |-> {}, threw |-> FALSE]
        ELSE [destinations |-> destinations, source |-> source,
              events |-> <<[type |-> "getItemBytes", server |-> source,
                            signature |-> signature, found |-> TRUE]>>
                         \o PushEvents(source, destinations, signature, failAt, 1),
              written |-> {destinations[i] : i \in
                              1..(IF failAt = 0 THEN Len(destinations) ELSE failAt - 1)},
              threw |-> failAt # 0]

(* A push that replaces what the destination holds.                        *)
putItemReplace(held, item) == {item}

(* destClient.putItem, lib.ts 574, seen from the destination: the item is  *)
(* added to the items it holds, which are otherwise left as they are.      *)
putItem(held, item) == held \cup {item}

(* "if (nextValue.done) throw", lib.ts 524-528: the first match has no     *)
(* value (or there is no match at all, which throws as well).              *)
logicErrorOf(cursors, matches) == matches = <<>> \/ cursors[matches[1]] = <<>>

logicError(matches) == logicErrorOf(peekers, matches)

(* The #copyItem of the class of the caller.                               *)
Copy(earlier, sources, others, signature, found, failAt) ==
    IF earlier
    THEN copyItemMaxCount(sources, others, signature, found, failAt)
    ELSE copyItem(sources, others, signature, found, failAt)

(* The positions of the transport calls among the events of a copy: each   *)
(* is awaited ("await sourceClient.getItemBytes", lib.ts 558, "await       *)
(* destClient.putItem", lib.ts 574), and its event is its return.          *)
Calls(events) ==
    {i \in 1..Len(events) : events[i].type \in {"getItemBytes", "putItem"}}

NthCall(events, k) ==
    CHOOSE i \in Calls(events) : Cardinality({j \in Calls(events) : j < i}) = k - 1

(* A copy with these events of which k transport calls have returned:     *)
(* the events made so far, and the call it awaits ("none": the copy has    *)
(* run to its end).                                                        *)
Suspended(events, k) ==
    IF k < Cardinality(Calls(events))
    THEN [shown |-> SubSeq(events, 1, NthCall(events, k + 1) - 1),
          awaits |-> events[NthCall(events, k + 1)].type]
    ELSE [shown |-> events, awaits |-> "none"]

(* A peek other than the last of its round resolves, lib.ts 500-506.       *)
Peek(more) ==
    /\ Peeking(more)
    /\ ~LastPeek
    /\ cp' = [cp EXCEPT !.peeked = @ + 1]
    /\ pc' = "peek"
    /\ UNCHANGED <<tasks, compared, profileSync, servers, mode, store, initial, peekers,
                   alreadySyncd, run, faults, errors, tips, log, schedVars>>

(* The last peek of a round resolves with a value at some cursor, lib.ts   *)
(* 507-538: tip, partition, the signature of the first match, and the call *)
(* of #copyItem (`earlier`: that of the earlier syncUser) up to its first  *)
(* await; with no destination left the copy returns and the first cursor's *)
(* next() is awaited.  `caught`: the events of the handler an exception    *)
(* reaches.                                                                *)
Iteration(earlier, caught) ==
    /\ LastPeek
    /\ Timestamps # {}
    /\ \E tip \in {Tip} :
       \E matches \in {Matches(tip)}, others \in {Others(tip)} :
       IF logicError(matches)
       THEN /\ cp' = [NoCopy EXCEPT !.tip = tip, !.matches = matches,
                                    !.logicError = TRUE, !.base = Len(log),
                                    !.cursors = peekers]
            /\ log' = log \o caught
            /\ errors' = errors + ErrorEnds(caught)
            /\ pc' = "error"
            /\ UNCHANGED tips
       ELSE
       \E signature \in {peekers[matches[1]][1].signature} :
       \E c \in {Copy(earlier, matches, others, signature, TRUE, 0)} :
       \E s \in {Suspended(c.events, 0)} :
           /\ cp' = [NoCopy EXCEPT !.tip = tip, !.signature = signature,
                                   !.matches = matches, !.others = others,
                                   !.source = c.source,
                                   !.destinations = c.destinations,
                                   !.base = Len(log), !.cursors = peekers]
           /\ tips' = Append(tips, ItemOf(signature))
           /\ log' = log \o s.shown
           /\ errors' = errors + ErrorEnds(s.shown)
           /\ pc' = IF s.awaits = "none" THEN "next" ELSE s.awaits
    /\ UNCHANGED <<tasks, compared, profileSync, servers, mode, store, initial, peekers,
                   alreadySyncd, run, faults, schedVars>>

(* The transport call the copy awaits returns, lib.ts 558 and 574: the     *)
(* fetch with the bytes or with nothing, a push resolved (the destination  *)
(* then holds the item) or rejected.  #copyItem runs on to its next await, *)
(* to its end (the first cursor's next() is then awaited), or to the       *)
(* exception of the rejected push, which leaves the loop.                  *)
CallReturns(earlier, caught) ==
    /\ pc \in {"getItemBytes", "putItem"}
    /\ \E found, ok \in BOOLEAN :
       \E before \in {Copy(earlier, cp.matches, cp.others, cp.signature,
                           cp.found, 0).events} :
       \E at \in {NthCall(before, cp.calls + 1)} :
       \E failAt \in {IF ok THEN 0
                      ELSE Cardinality({i \in Calls(before) :
                               i <= at /\ before[i].type = "putItem"})} :
       \E c \in {Copy(earlier, cp.matches, cp.others, cp.signature, found, failAt)} :
       \E s \in {Suspended(c.events, cp.calls + 1)} :
           /\ found = IF pc = "getItemBytes" /\ cp.calls = 0 THEN found ELSE cp.found
           /\ pc = "getItemBytes" => ok
           /\ (~found \/ ~ok) => faults < MaxFaults
           /\ faults' = IF (pc = "getItemBytes" /\ ~found) \/ ~ok
                        THEN faults + 1 ELSE faults
           /\ log' = SubSeq(log, 1, cp.base) \o s.shown
                         \o (IF s.awaits = "none" /\ c.threw THEN caught ELSE <<>>)
           /\ errors' = errors + ErrorEnds(SubSeq(log', Len(log) + 1, Len(log')))
           /\ store' = IF pc = "putItem" /\ ok
                       THEN [store EXCEPT ![before[at].server] =
                                putItem(@, ItemOf(cp.signature))]
                       ELSE store
           /\ cp' = [cp EXCEPT !.found = found, !.failAt = failAt,
                               !.calls = @ + 1]
           /\ pc' = IF s.awaits # "none" THEN s.awaits
                    ELSE IF c.threw THEN "error" ELSE "next"
    /\ UNCHANGED <<tasks, compared, profileSync, servers, mode, initial, peekers,
                   alreadySyncd, run, tips, schedVars>>

(* "await match.peeker.next()" resolves for the next of the matches,       *)
(* lib.ts 541-543; after the last, "alreadySyncd += 1" (lib.ts 545) and    *)
(* the loop is at its top again.                                           *)
CursorAdvanced ==
    /\ pc = "next"
    /\ \E j \in {cp.advanced + 1} :
           /\ peekers' = [peekers EXCEPT ![cp.matches[j]] =
                             IF @ = <<>> THEN @ ELSE Tail(@)]
           /\ cp' = [cp EXCEPT !.advanced = j]
           /\ alreadySyncd' = IF j = Len(cp.matches)
                              THEN alreadySyncd + 1 ELSE alreadySyncd
           /\ pc' = IF j = Len(cp.matches) THEN "loop" ELSE "next"
    /\ UNCHANGED <<tasks, compared, profileSync, servers, mode, store, initial, run,
                   faults, errors, tips, log, schedVars>>

(* syncUser's catch, lib.ts 473-476: the entry is ended with error.        *)
Caught == <<[type |-> "end", event |-> "syncUserItems", result |-> "error"]>>

(* The peeks of a round of #syncUser's loop but the last.                  *)
PeekReturns == Peek(moreToSync)

(* The last peek of a round, made while moreToSync() held: the iteration   *)
(* up to the first await of its copy.                                      *)
Reconcile ==
    /\ Peeking(moreToSync)
    /\ Iteration(FALSE, Caught)

(* A transport call of the iteration's copy returns.                       *)
CopyCallReturns == CallReturns(FALSE, Caught)

----------------------------------------------------------------------------
(* The engine run for one user: the constructor, then syncUser.            *)

Configs == UNION {[1..n -> [isDest : BOOLEAN]] : n \in 0..NumServers}

(* No pass of the loop over opts.users has been made.                      *)
NoPass == [id |-> 0, sync |-> [mode |-> "full", follows |-> FALSE], follows |-> <<>>]

SchedIdle ==
    /\ users = <<>>
    /\ userIdx = 0
    /\ usersToSync = <<>>
    /\ status = <<>>
    /\ via = <<>>
    /\ supplied = {}
    /\ resolved = NoPass
    /\ missing = {}

Init ==
    /\ servers \in Configs
    /\ mode \in SyncModes
    /\ store \in [1..Len(servers) -> SUBSET Items]
    /\ initial = store
    /\ pc = "new"
    /\ peekers = [s \in 1..Len(servers) |-> <<>>]
    /\ alreadySyncd = 0
    /\ cp = NoCopy
    /\ run = 1
    /\ faults = 0
    /\ errors = 0
    /\ tips = <<>>
    /\ log = <<>>
    /\ compared = <<>>
    /\ profileSync = <<>>
    /\ tasks = <<>>
    /\ SchedIdle

Next ==
    \/ Construct
    \/ SyncUserStart
    \/ LoopExit
    \/ PeekReturns
    \/ Reconcile
    \/ CopyCallReturns
    \/ CursorAdvanced

Spec == Init /\ [][Next]_vars

(* Every call of the run returns or fails, so the run keeps taking steps.  *)
FairSpec == Spec /\ WF_vars(Next)

(* The run in mode "full" for a user whose items have pairwise distinct    *)
(* timestamps.                                                             *)
InitDistinct ==
    /\ servers \in Configs
    /\ mode = [mode |-> "full"]
    /\ store \in [1..Len(servers) -> SUBSET DistinctItems]
    /\ initial = store
    /\ pc = "new"
    /\ peekers = [s \in 1..Len(servers) |-> <<>>]
    /\ alreadySyncd = 0
    /\ cp = NoCopy
    /\ run = 1
    /\ faults = 0
    /\ errors = 0
    /\ tips = <<>>
    /\ log = <<>>
    /\ compared = <<>>
    /\ profileSync = <<>>
    /\ tasks = <<>>
    /\ SchedIdle

SpecDistinct == InitDistinct /\ [][Next]_vars

----------------------------------------------------------------------------
(* The earlier Sync.syncUser(uid, opts), lib.ts 38-108, with its           *)
(* #copyItem, lib.ts 110-142.  `mode` holds opts: whether maxCount is      *)
(* specified, and its value.                                               *)

DefaultMaxCount == 50

(* opts?.maxCount with no default: unspecified means no limit.             *)
maxToSyncNoDefault == IF mode.specified THEN mode.maxCount ELSE 0

(* "const maxToSync = opts?.maxCount ?? 50", lib.ts 42.                    *)
maxToSync == IF mode.specified THEN mode.maxCount ELSE DefaultMaxCount

(* "maxToSync <= 0 || alreadySyncd < maxToSync", lib.ts 45-47.             *)
moreToSyncMaxCount == maxToSync <= 0 \/ alreadySyncd < maxToSync

(* The values of opts?.maxCount: unspecified, negative, 0, positive.       *)
MaxCountOpts ==
    {[specified |-> FALSE, maxCount |-> 0]}
        \cup {[specified |-> TRUE, maxCount |-> n] : n \in (-1)..MaxCount}

(* The first server lists n items, the second those or all but the newest. *)
InitMaxCount ==
    /\ servers = <<[isDest |-> FALSE], [isDest |-> TRUE]>>
    /\ mode \in MaxCountOpts
    /\ \E n \in 0..MaxListed, m \in 0..MaxListed :
           /\ m \in {n - 1, n}
           /\ store = <<ListedItems(n), ListedItems(m)>>
    /\ initial = store
    /\ pc = "ready"
    /\ peekers = [s \in 1..Len(servers) |-> <<>>]
    /\ alreadySyncd = 0
    /\ cp = NoCopy
    /\ run = 1
    /\ faults = 0
    /\ errors = 0
    /\ tips = <<>>
    /\ log = <<>>
    /\ compared = <<>>
    /\ profileSync = <<>>
    /\ tasks = <<>>
    /\ SchedIdle

(* syncUser up to the first evaluation of the loop condition, lib.ts       *)
(* 38-56.                                                                  *)
SyncUserMaxCountStart ==
    /\ pc = "ready"
    /\ log' = <<[type |-> "operation", event |-> "starting"]>>
                  \o [s \in 1..Len(servers) |-> [type |-> "getUserItems", server |-> s]]
    /\ peekers' = [s \in 1..Len(servers) |-> getUserItems(s)]
    /\ alreadySyncd' = 0
    /\ cp' = NoCopy
    /\ tips' = <<>>
    /\ pc' = "loop"
    /\ UNCHANGED <<tasks, compared, profileSync, servers, mode, store, initial, run, faults,
                   errors, schedVars>>

(* The peeks of a round but the last, lib.ts 59-65.                        *)
PeekReturnsMaxCount == Peek(moreToSyncMaxCount)

(* The last peek of a round, lib.ts 59-97: the iteration up to the first   *)
(* await of its copy.  Nothing catches a rejected push.                    *)
ReconcileMaxCount ==
    /\ Peeking(moreToSyncMaxCount)
    /\ Iteration(TRUE, <<>>)

(* A transport call of the copy returns, lib.ts 120 and 137.               *)
CopyCallReturnsMaxCount == CallReturns(TRUE, <<>>)

(* The loop ends, lib.ts 57 or 70-73, and the operation is logged done.    *)
LoopExitMaxCount ==
    /\ \/ pc = "loop" /\ ~moreToSyncMaxCount
       \/ Peeking(moreToSyncMaxCount) /\ LastPeek /\ Timestamps = {}
    /\ log' = log \o <<[type |-> "operation", event |-> "done"]>>
    /\ pc' = "done"
    /\ cp' = [cp EXCEPT !.peeked = 0]
    /\ UNCHANGED <<tasks, compared, profileSync, servers, mode, store, initial, peekers,
                   alreadySyncd, run, faults, errors, tips, schedVars>>

----------------------------------------------------------------------------
(* The engine run again after a run has ended, on the servers as the       *)
(* first run left them.                                                    *)

Rerun ==
    /\ pc \in {"done", "error"}
    /\ run < NumRuns
    /\ run' = run + 1
    /\ pc' = "ready"
    /\ UNCHANGED <<tasks, compared, profileSync, servers, faults, errors, mode, store, initial, peekers, alreadySyncd, cp,
                   tips, log, schedVars>>

NextTwice == Next \/ Rerun

SpecTwice == Init /\ [][NextTwice]_vars

----------------------------------------------------------------------------
(* Sync.sync, lib.ts 394-439: the discovery of the users to synchronise.   *)

NumUsers == 3
MaxUsers == 3
MaxSyncUsers == 2
MaxFollows == 3
MaxFollowsEach == 1
MaxLongUsers == 1
MaxProfileTs == 2
MaxUserProfileTs == 1

UserIds == 1..NumUsers

(* A display name: absent or empty (both falsy for "||="), or not.         *)
Names == {"", "name"}

(* user.sync of a configured user: the mode and the follows flag.          *)
UserSyncs ==
    {[mode |-> "full", follows |-> f] : f \in BOOLEAN}
        \cup {[mode |-> "latest", count |-> MaxCount, follows |-> f] : f \in BOOLEAN}

(* follow.displayName: as a display name, or another name.                 *)
KnownNames == Names \cup {"other"}

(* profile.follows: the users a profile follows, each under a name; a list *)
(* may name a user more than once, the user of the profile included.  In   *)
(* the runs of at most MaxLongUsers configured users a list has up to      *)
(* MaxFollows entries, in the longer runs up to MaxFollowsEach.            *)
FollowLists ==
    IF Len(users) <= MaxLongUsers
    THEN UNION {[1..n -> [user : UserIds, displayName : KnownNames]] :
                    n \in 0..MaxFollows}
    ELSE UNION {[1..n -> [user : UserIds, displayName : Names]] :
                    n \in 0..MaxFollowsEach}

(* The signature of the newest profile of the user being resolved.         *)
ProfileSignature == <<0>>

(* "old.x ||= new.x", lib.ts 403-404.                                      *)
OrAssign(old, new) == IF old # "" THEN old ELSE new

IndexOf(q, uid) ==
    IF \E i \in 1..Len(q) : q[i].id = uid
    THEN CHOOSE i \in 1..Len(q) : q[i].id = uid
    ELSE 0

(* addUser without the lookup: every addition makes an entry.              *)
addUserAlways(q, info) == Append(q, info)

(* addUser with the later addition's sync replacing the entry's.           *)
addUserLastWins(q, info) ==
    LET i == IndexOf(q, info.id)
    IN  IF i = 0
        THEN Append(q, info)
        ELSE [q EXCEPT ![i].displayName = OrAssign(@, info.displayName),
                       ![i].knownName = OrAssign(@, info.knownName),
                       ![i].sync = info.sync]

(* addUser with the operands of the two "||=" exchanged: a later name that *)
(* is not empty replaces the entry's.                                      *)
addUserNewNames(q, info) ==
    LET i == IndexOf(q, info.id)
    IN  IF i = 0
        THEN Append(q, info)
        ELSE [q EXCEPT ![i].displayName = OrAssign(info.displayName, @),
                       ![i].knownName = OrAssign(info.knownName, @)]

(* addUser without the two "||=" lines: the first entry is kept as is.     *)
addUserFirstOnly(q, info) ==
    IF IndexOf(q, info.id) = 0 THEN Append(q, info) ELSE q

(* addUser, lib.ts 396-405, on the map usersToSync in insertion order.     *)
addUser(q, info) ==
    LET i == IndexOf(q, info.id)
    IN  IF i = 0
        THEN Append(q, info)
        ELSE [q EXCEPT ![i].displayName = OrAssign(@, info.displayName),
                       ![i].knownName = OrAssign(@, info.knownName)]

(* No walk of the follow list.                                             *)
addFollowsNone(q, follows, sync, i) == q

RECURSIVE addFollows(_, _, _, _)
(* "for (const follow of profile.follows) addUser(...)", lib.ts 424-435.   *)
addFollows(q, follows, sync, i) ==
    IF i > Len(follows) THEN q
    ELSE addFollows(addUser(q, [id |-> follows[i].user, displayName |-> "",
                                knownName |-> follows[i].displayName,
                                sync |-> sync]),
                    follows, sync, i + 1)

(* "latest = Math.max(...timestamps)", lib.ts 603, where some server has   *)
(* the profile.                                                            *)
latest(profiles) ==
    Max({profiles[s] : s \in {t \in 1..Len(servers) : profiles[t] # 0}})

(* The partition with every server that has a profile, of whatever         *)
(* timestamp, among the matches.                                           *)
profileMatchesAny(profiles) ==
    SelectSeq(ServerIds, LAMBDA s : profiles[s] # 0)

(* lazy(profiles).partition(...), lib.ts 605-606, in the order of          *)
(* config.servers.                                                         *)
profileMatches(profiles) ==
    SelectSeq(ServerIds, LAMBDA s : profiles[s] # 0 /\ profiles[s] = latest(profiles))

profileOthers(profiles) ==
    LET matches == Range(profileMatches(profiles))
    IN  SelectSeq(ServerIds, LAMBDA s : s \notin matches)

(* "const profile = matches[0].profile!", lib.ts 608: the timestamp of the *)
(* profile that is returned.                                               *)
returnedProfile(profiles) == profiles[profileMatches(profiles)[1]]

(* #syncLatestProfile with the rejection of a push swallowed: the call     *)
(* returns the profile whatever happened to the copy.                      *)
syncLatestProfileSwallow(profiles, found, failAt) ==
    LET timestamps == {profiles[s] : s \in {t \in 1..Len(servers) : profiles[t] # 0}}
    IN  IF timestamps = {}
        THEN [null |-> TRUE, threw |-> FALSE, source |-> 0, destinations |-> <<>>,
              events |-> <<>>, written |-> {}]
        ELSE LET c == copyItem(profileMatches(profiles), profileOthers(profiles),
                               ProfileSignature, found, failAt)
             IN  [null |-> FALSE, threw |-> FALSE, source |-> c.source,
                  destinations |-> c.destinations, events |-> c.events,
                  written |-> c.written]

(* #syncLatestProfile, lib.ts 585-622, for the servers' answers to         *)
(* getProfile (profiles[s] = 0: none, else the profile's timestamp) and    *)
(* the answers `found` and `failAt` to the copy of the newest profile.     *)
syncLatestProfile(profiles, found, failAt) ==
    LET timestamps == {profiles[s] : s \in {t \in 1..Len(servers) : profiles[t] # 0}}
    IN  IF timestamps = {}
        THEN [null |-> TRUE, threw |-> FALSE, source |-> 0, destinations |-> <<>>,
              events |-> <<>>, written |-> {}]
        ELSE LET matches == profileMatches(profiles)
                 others == profileOthers(profiles)
                 c == copyItem(matches, others, ProfileSignature, found, failAt)
             IN  [null |-> FALSE, threw |-> c.threw, source |-> c.source,
                  destinations |-> c.destinations, events |-> c.events,
                  written |-> c.written]

(* The earlier #syncLatestProfile, lib.ts 177-208, with the earlier        *)
(* #copyItem.                                                              *)
syncLatestProfileMaxCount(profiles, found, failAt) ==
    LET timestamps == {profiles[s] : s \in {t \in 1..Len(servers) : profiles[t] # 0}}
    IN  IF timestamps = {}
        THEN [null |-> TRUE, threw |-> FALSE, source |-> 0, destinations |-> <<>>,
              events |-> <<>>, written |-> {}]
        ELSE LET matches == profileMatches(profiles)
                 others == profileOthers(profiles)
                 c == copyItemMaxCount(matches, others, ProfileSignature, found, failAt)
             IN  [null |-> FALSE, threw |-> c.threw, source |-> c.source,
                  destinations |-> c.destinations, events |-> c.events,
                  written |-> c.written]

(* The #syncLatestProfile of the class of the caller.                      *)
LatestProfile(earlier, profiles, found, failAt) ==
    IF earlier
    THEN syncLatestProfileMaxCount(profiles, found, failAt)
    ELSE syncLatestProfile(profiles, found, failAt)

(* The environment's answers to one call of #syncLatestProfile: what each  *)
(* server returns for getProfile, whether getItemBytes returns the bytes,  *)
(* and the pass whose putItem rejects (0 for none).  The last two are      *)
(* answers only where the call is made.                                    *)
ProfileAnswers ==
    {a \in [profiles : [1..Len(servers) -> 0..MaxProfileTs],
            found : BOOLEAN, failAt : 0..Len(servers)] :
        LET r == syncLatestProfile(a.profiles, TRUE, 0)
        IN  /\ a.failAt <= Len(r.destinations)
            /\ ~a.found => Len(r.destinations) > 0 /\ a.failAt = 0}

(* The outcomes of #syncLatestProfile over the environment's answers, each *)
(* with whether a transport call failed in it.                             *)
ProfileResults ==
    {[result |-> syncLatestProfile(a.profiles, a.found, a.failAt),
      fault |-> ~a.found \/ a.failAt # 0] : a \in ProfileAnswers}

NoVia == [u \in UserIds |-> 0]

(* The number of passes so far in which `uid` was the configured user.     *)
Direct(uid) == Cardinality({i \in 1..userIdx : users[i] = uid})

RECURSIVE FollowCount(_, _, _)
FollowCount(follows, uid, i) ==
    IF i > Len(follows) THEN 0
    ELSE (IF follows[i].user = uid THEN 1 ELSE 0) + FollowCount(follows, uid, i + 1)

(* No call of #syncLatestProfile is in progress.  Of a call: where it is   *)
(* suspended, the servers' answers to getProfile so far, whether the       *)
(* source returned the bytes, the pass whose putItem rejected, how many    *)
(* transport calls of the copy have returned, and the length of the log    *)
(* when #copyItem was called.                                              *)
NoProfileCall == [at |-> "idle", profiles |-> <<>>, found |-> TRUE, failAt |-> 0,
                  calls |-> 0, base |-> 0]

(* sync() is entered: the map usersToSync is created empty.                *)
SyncStart ==
    /\ pc = "ready"
    /\ pc' = "discovery"
    /\ usersToSync' = <<>>
    /\ userIdx' = 0
    /\ status' = <<>>
    /\ via' = NoVia
    /\ supplied' = {}
    /\ resolved' = NoPass
    /\ missing' = {}
    /\ profileSync' = NoProfileCall
    /\ UNCHANGED <<tasks, compared, servers, faults, errors, users, mergeVars>>

(* The profile of `uid` with timestamp t, as a server holds it.            *)
ProfileItem(uid, t) ==
    [user |-> uid, timestampMsUtc |-> t, signature |-> ProfileSignature]

(* The timestamp of the newest profile of `uid` that was put on server s   *)
(* (0: none was).                                                          *)
Held(s, uid) ==
    Max({0} \cup {it.timestampMsUtc : it \in
                     {x \in store[s] : x.user = uid /\ x.signature = ProfileSignature}})

(* What a step inside #syncLatestProfile leaves alone: sync() is suspended *)
(* on it.                                                                  *)
ProfileAwaited == UNCHANGED <<pc, schedVars>>

(* #syncLatestProfile has returned to the pass of "for (const user of      *)
(* opts.users)", lib.ts 409-436, which runs to its end without another     *)
(* await.  The user's settings are read here, once; the content of the     *)
(* newest profile is the environment's; the profile's follow list is       *)
(* walked only under the follows flag.                                     *)
PassEnds(uid, result) ==
    IF result.null
    THEN /\ pc' = "rejected"
         /\ missing' = missing \cup {uid}
         /\ UNCHANGED <<users, status, usersToSync, userIdx, via, supplied, resolved>>
    ELSE IF result.threw
    THEN /\ pc' = "rejected"
         /\ UNCHANGED schedVars
    ELSE \E sync \in UserSyncs, displayName \in Names, profile \in FollowLists :
         \E follows \in {IF sync.follows THEN profile ELSE <<>>} :
         \E direct \in {[id |-> uid, displayName |-> displayName,
                         knownName |-> "", sync |-> sync]} :
             /\ usersToSync' =
                    addFollows(addUser(usersToSync, direct), follows, sync, 1)
             /\ userIdx' = userIdx + 1
             /\ resolved' = [id |-> uid, sync |-> sync, follows |-> profile]
             /\ via' = [u \in UserIds |->
                           via[u] + FollowCount(follows, u, 1)]
             /\ supplied' = supplied
                    \cup {u \in {uid} : displayName # ""}
                    \cup {follows[i].user : i \in
                            {j \in 1..Len(follows) :
                                 follows[j].displayName # ""}}
             /\ pc' = "discovery"
             /\ UNCHANGED <<users, status, missing>>

(* #syncLatestProfile has returned `result` for the answers `profiles`:    *)
(* to sync()'s pass (`inSync`), or to a caller that keeps the outcome.     *)
ProfileReturned(inSync, uid, profiles, found, failAt, result) ==
    IF inSync
    THEN /\ profileSync' = NoProfileCall
         /\ PassEnds(uid, result)
    ELSE /\ profileSync' =
                [at |-> "returned", profiles |-> profiles, found |-> found,
                 failAt |-> failAt, result |-> result,
                 sources |-> IF result.null THEN <<>> ELSE profileMatches(profiles),
                 returned |-> IF result.null \/ result.threw
                              THEN 0 ELSE returnedProfile(profiles)]
         /\ pc' = "profiled"
         /\ UNCHANGED schedVars

(* "await client.getProfile(uid)" resolves for the next server, lib.ts     *)
(* 586-592, with the timestamp of the server's newest profile (0: none),   *)
(* which is at least that of a profile put there.  After the last server   *)
(* the call runs on, lib.ts 595-619: it returns null when no server has a  *)
(* profile, and else calls #copyItem, which runs to its first await or,    *)
(* with no destination left, returns.                                      *)
ProfileAnswered(earlier, inSync, uid) ==
    /\ profileSync.at \in {"idle", "getProfile"}
    /\ \E s \in {Len(profileSync.profiles) + 1} :
       \E t \in {p \in 0..(IF inSync THEN MaxUserProfileTs ELSE MaxProfileTs) :
                     p >= Held(s, uid)} :
       \E profiles \in {Append(profileSync.profiles, t)} :
       \E asked \in {log \o <<[type |-> "getProfile", server |-> s]>>} :
           IF s < Len(servers)
           THEN /\ profileSync' = [profileSync EXCEPT !.at = "getProfile",
                                                     !.profiles = profiles]
                /\ log' = asked
                /\ ProfileAwaited
           ELSE \E r \in {LatestProfile(earlier, profiles, TRUE, 0)} :
                \E c \in {Suspended(r.events, 0)} :
                    /\ log' = asked \o c.shown
                    /\ IF c.awaits = "none"
                       THEN ProfileReturned(inSync, uid, profiles, TRUE, 0, r)
                       ELSE /\ profileSync' =
                                   [NoProfileCall EXCEPT !.at = c.awaits,
                                                         !.profiles = profiles,
                                                         !.base = Len(asked)]
                            /\ ProfileAwaited
    /\ UNCHANGED <<tasks, compared, servers, faults, errors, mode, store, initial,
                   peekers, alreadySyncd, cp, run, tips>>

(* The transport call the copy of the newest profile awaits returns,      *)
(* lib.ts 558 and 574: the fetch with the bytes or with nothing, a push    *)
(* resolved (the destination then holds the profile) or rejected.          *)
(* #copyItem runs on to its next await or to its end, and then             *)
(* #syncLatestProfile returns the profile (lib.ts 621); the exception of   *)
(* a rejected push leaves both.                                            *)
ProfileCallReturns(earlier, inSync, uid) ==
    /\ profileSync.at \in {"getItemBytes", "putItem"}
    /\ \E found, ok \in BOOLEAN :
       \E profiles \in {profileSync.profiles} :
       \E before \in {LatestProfile(earlier, profiles, profileSync.found, 0).events} :
       \E at \in {NthCall(before, profileSync.calls + 1)} :
       \E failAt \in {IF ok THEN 0
                      ELSE Cardinality({i \in Calls(before) :
                               i <= at /\ before[i].type = "putItem"})} :
       \E r \in {LatestProfile(earlier, profiles, found, failAt)} :
       \E c \in {Suspended(r.events, profileSync.calls + 1)} :
           /\ found = IF profileSync.at = "getItemBytes" THEN found
                      ELSE profileSync.found
           /\ profileSync.at = "getItemBytes" => ok
           /\ (~found \/ ~ok) => faults < MaxFaults
           /\ faults' = IF ~found \/ ~ok THEN faults + 1 ELSE faults
           /\ log' = SubSeq(log, 1, profileSync.base) \o c.shown
           /\ errors' = errors + ErrorEnds(SubSeq(log', Len(log) + 1, Len(log')))
           /\ store' = IF profileSync.at = "putItem" /\ ok
                       THEN [store EXCEPT ![before[at].server] =
                                putItem(@, ProfileItem(uid, latest(profiles)))]
                       ELSE store
           /\ IF c.awaits = "none"
              THEN ProfileReturned(inSync, uid, profiles, found, failAt, r)
              ELSE /\ profileSync' = [profileSync EXCEPT !.at = c.awaits,
                                                        !.found = found,
                                                        !.calls = @ + 1]
                   /\ ProfileAwaited
    /\ UNCHANGED <<tasks, compared, servers, mode, initial, peekers, alreadySyncd,
                   cp, run, tips>>

(* A getProfile of sync()'s call "await this.#syncLatestProfile(user.id)"  *)
(* resolves, lib.ts 409.                                                   *)
ResolveUser ==
    /\ pc = "discovery"
    /\ userIdx < Len(users)
    /\ ProfileAnswered(FALSE, TRUE, users[userIdx + 1])

(* A transport call of the profile's copy returns in that call.            *)
ResolveUserCopy ==
    /\ pc = "discovery"
    /\ userIdx < Len(users)
    /\ ProfileCallReturns(FALSE, TRUE, users[userIdx + 1])

----------------------------------------------------------------------------
(* #syncUsers, lib.ts 441-456: the tasks run in a pool of width 5.  A task *)
(* is a call of syncUser (lib.ts 461-479), which runs #syncUser (lib.ts    *)
(* 481-547) for its user: it is suspended at each await of its merge loop  *)
(* (a cursor's peek, getItemBytes, putItem, a cursor's next()), and the    *)
(* other tasks of the pool run meanwhile.                                  *)

parallelism == 5

Finished == {"success", "error"}

Running == {i \in 1..Len(status) : status[i] = "running"}
Pending == {i \in 1..Len(status) : status[i] = "pending"}

(* The admission of one more task whatever the number in flight.           *)
CanStartAlways(running) == TRUE

(* A pool that never pulls a task.                                         *)
CanStartNever(running) == FALSE

(* "parallel: parallelism": a task is pulled only while fewer than         *)
(* `parallelism` are in flight.                                            *)
CanStart(running) == running < parallelism

(* syncUser with a catch that ends the entry and throws the error again.   *)
syncUserRethrow(outcome) == [logged |-> outcome, rejects |-> outcome = "error"]

(* syncUser, lib.ts 461-479, for the outcome of #syncUser: the entry is    *)
(* ended with that outcome and the call never rejects.                     *)
syncUser(outcome) == [logged |-> outcome, rejects |-> FALSE]

(* The hand-off as soon as one user has been resolved.                     *)
DoneCollectingEarly == userIdx >= 1 \/ Len(users) = 0

(* "for (const user of opts.users)" has made its last pass, lib.ts 408-436. *)
DoneCollecting == userIdx = Len(users)

(* A task the pool has not pulled.  Of a task pulled: where its call of    *)
(* syncUser is suspended, and the locals of its #syncUser (the cursors,    *)
(* the counter, the iteration in progress) with the events it has made.    *)
NoTask == [pc |-> "pending", peekers |-> <<>>, alreadySyncd |-> 0, cp |-> NoCopy,
           log |-> <<>>]

(* "Done collecting users": the values of the map are handed to the pool.  *)
DiscoveryDone ==
    /\ pc = "discovery"
    /\ DoneCollecting
    /\ pc' = "parallel"
    /\ status' = [i \in 1..Len(usersToSync) |-> "pending"]
    /\ tasks' = [i \in 1..Len(usersToSync) |-> NoTask]
    /\ resolved' = NoPass
    /\ UNCHANGED <<compared, profileSync, servers, faults, errors, users, userIdx, usersToSync, via, supplied,
                   missing, mergeVars>>

(* An item as a server holds it among the items of all the users.          *)
UserItem(uid, item) ==
    [user |-> uid, timestampMsUtc |-> item.timestampMsUtc,
     signature |-> item.signature]

(* client.getUserItems(user.id), lib.ts 495: the items of the user that    *)
(* server s lists, newest first.  The profiles are the answers to          *)
(* getProfile; they are not among the items listed.                        *)
getUserItemsOf(s, uid) ==
    SortDesc({[timestampMsUtc |-> x.timestampMsUtc, signature |-> x.signature] :
                 x \in {y \in store[s] :
                           y.user = uid /\ y.signature # ProfileSignature}})

(* What a step of a task leaves alone: the configuration, the map, and the *)
(* variables of a call of syncUser made outside the pool.                  *)
TaskFrame ==
    UNCHANGED <<compared, profileSync, servers, users, userIdx, usersToSync, via,
                supplied, missing, resolved, mode, initial, peekers, alreadySyncd,
                cp, run, tips, log>>

(* #syncUser has returned (success) or thrown (error) in task k, left as   *)
(* `task`: syncUser ends the task's entry with that outcome, lib.ts        *)
(* 471-478, and the mapper's promise settles.                              *)
TaskReturns(k, task, outcome) ==
    \E r \in {syncUser(outcome)} :
        /\ tasks' = [tasks EXCEPT ![k] =
               [task EXCEPT !.pc = IF outcome = "success" THEN "done" ELSE "error",
                            !.log = @ \o <<[type |-> "end", event |-> "syncUserItems",
                                            result |-> r.logged]>>]]
        /\ status' = [status EXCEPT ![k] = r.logged]
        /\ pc' = IF r.rejects THEN "rejected" ELSE pc

(* Task k goes on, suspended as `task` says.                               *)
TaskAwaits(k, task) ==
    /\ tasks' = [tasks EXCEPT ![k] = task]
    /\ UNCHANGED <<pc, status>>

(* The pool pulls the next task, in the order of the map, and calls        *)
(* syncUser, lib.ts 445-452: the task's entry is started (lib.ts 463), one *)
(* cursor per server is created (lib.ts 491-498) and the first peek is     *)
(* awaited.                                                                *)
StartTask ==
    /\ pc = "parallel"
    /\ Pending # {}
    /\ CanStart(Cardinality(Running))
    /\ \E k \in {Min(Pending)} :
       \E opts \in {usersToSync[k]} :
       \E task \in {[NoTask EXCEPT
                        !.pc = "loop",
                        !.peekers = [s \in 1..Len(servers) |->
                                        getUserItemsOf(s, opts.id)],
                        !.log = <<[type |-> "start", event |-> "syncUserItems"]>>
                                    \o [s \in 1..Len(servers) |->
                                           [type |-> "getUserItems", server |-> s]]]} :
           IF moreToSyncOf(opts.sync, 0)
           THEN /\ tasks' = [tasks EXCEPT ![k] = task]
                /\ status' = [status EXCEPT ![k] = "running"]
                /\ UNCHANGED pc
           ELSE TaskReturns(k, task, "success")
    /\ UNCHANGED <<store, faults, errors>>
    /\ TaskFrame

(* The tasks suspended on a peek of the round, lib.ts 500-506.             *)
Peekers == {k \in Running : tasks[k].pc \in {"loop", "peek"}}

(* A peek other than the last of its round resolves in a task.             *)
TaskPeekReturns ==
    /\ pc = "parallel"
    /\ \E k \in Peekers :
           /\ tasks[k].cp.peeked + 1 < Len(servers)
           /\ TaskAwaits(k, [tasks[k] EXCEPT !.cp.peeked = @ + 1, !.pc = "peek"])
    /\ UNCHANGED <<store, faults, errors>>
    /\ TaskFrame

(* The last peek of a round resolves in a task, lib.ts 507-538.  With      *)
(* every cursor exhausted the loop ends and the task returns; else tip,    *)
(* partition, the signature of the first match, and #copyItem up to its    *)
(* first await (with no destination left the copy returns and the first    *)
(* cursor's next() is awaited).                                            *)
TaskReconcile ==
    /\ pc = "parallel"
    /\ \E k \in Peekers :
       \E task \in {tasks[k]} :
           /\ task.cp.peeked + 1 = Len(servers)
           /\ IF TimestampsOf(task.peekers) = {}
              THEN /\ TaskReturns(k, [task EXCEPT !.cp.peeked = 0], "success")
                   /\ UNCHANGED errors
              ELSE
              \E tip \in {TipOf(task.peekers)} :
              \E matches \in {MatchesOf(task.peekers, tip)},
                 others \in {OthersOf(task.peekers, tip)} :
              IF logicErrorOf(task.peekers, matches)
              THEN /\ TaskReturns(k, [task EXCEPT !.cp =
                          [NoCopy EXCEPT !.tip = tip, !.matches = matches,
                                         !.logicError = TRUE,
                                         !.base = Len(task.log),
                                         !.cursors = task.peekers]], "error")
                   /\ errors' = errors + 1
              ELSE
              \E signature \in {task.peekers[matches[1]][1].signature} :
              \E c \in {copyItem(matches, others, signature, TRUE, 0)} :
              \E s \in {Suspended(c.events, 0)} :
                  /\ TaskAwaits(k, [task EXCEPT
                         !.cp = [NoCopy EXCEPT !.tip = tip, !.signature = signature,
                                               !.matches = matches, !.others = others,
                                               !.source = c.source,
                                               !.destinations = c.destinations,
                                               !.base = Len(task.log),
                                               !.cursors = task.peekers],
                         !.log = @ \o s.shown,
                         !.pc = IF s.awaits = "none" THEN "next" ELSE s.awaits])
                  /\ errors' = errors + ErrorEnds(s.shown)
    /\ UNCHANGED <<store, faults>>
    /\ TaskFrame

(* The most transport calls of the tasks of one run that fail.             *)
MaxTaskFaults == 2

(* The transport call the copy of a task awaits returns, lib.ts 558 and    *)
(* 574: the fetch with the bytes or with nothing, a push resolved (the     *)
(* destination then holds the item) or rejected.  #copyItem runs on to its *)
(* next await, to its end (the first cursor's next() is then awaited), or  *)
(* to the exception of the rejected push, which leaves #syncUser and is    *)
(* caught by syncUser, lib.ts 473-476.                                     *)
TaskCopyCallReturns ==
    /\ pc = "parallel"
    /\ \E k \in {j \in Running : tasks[j].pc \in {"getItemBytes", "putItem"}} :
       \E task \in {tasks[k]} :
       \E found \in (IF task.pc = "getItemBytes" /\ task.cp.calls = 0
                     THEN BOOLEAN ELSE {task.cp.found}),
          ok \in (IF task.pc = "getItemBytes" THEN {TRUE} ELSE BOOLEAN) :
       \E before \in {copyItem(task.cp.matches, task.cp.others, task.cp.signature,
                               task.cp.found, 0).events} :
       \E at \in {NthCall(before, task.cp.calls + 1)} :
       \E failAt \in {IF ok THEN 0
                      ELSE Cardinality({i \in Calls(before) :
                               i <= at /\ before[i].type = "putItem"})} :
       \E c \in {copyItem(task.cp.matches, task.cp.others, task.cp.signature,
                          found, failAt)} :
       \E s \in {Suspended(c.events, task.cp.calls + 1)} :
       \E threw \in {s.awaits = "none" /\ c.threw} :
       \E shown \in {SubSeq(task.log, 1, task.cp.base) \o s.shown} :
       \E next \in {[task EXCEPT
                        !.log = shown,
                        !.cp = [task.cp EXCEPT !.found = found, !.failAt = failAt,
                                               !.calls = @ + 1],
                        !.pc = IF s.awaits # "none" THEN s.awaits ELSE "next"]} :
           /\ (~found \/ ~ok) => faults < MaxTaskFaults
           /\ faults' = IF (task.pc = "getItemBytes" /\ ~found) \/ ~ok
                        THEN faults + 1 ELSE faults
           /\ store' = IF task.pc = "putItem" /\ ok
                       THEN [store EXCEPT ![before[at].server] =
                                putItem(@, UserItem(usersToSync[k].id,
                                                    ItemOf(task.cp.signature)))]
                       ELSE store
           /\ errors' = errors
                  + ErrorEnds(SubSeq(shown, Len(task.log) + 1, Len(shown)))
                  + (IF threw THEN 1 ELSE 0)
           /\ IF threw THEN TaskReturns(k, next, "error") ELSE TaskAwaits(k, next)
    /\ TaskFrame

(* "await match.peeker.next()" resolves for the next of the matches of a   *)
(* task, lib.ts 541-543; after the last, "alreadySyncd += 1" (lib.ts 545)  *)
(* and the loop condition: the first peek of the next round is awaited, or *)
(* the loop ends and the task returns.                                     *)
TaskCursorAdvanced ==
    /\ pc = "parallel"
    /\ \E k \in {j \in Running : tasks[j].pc = "next"} :
       \E task \in {tasks[k]} :
       \E j \in {task.cp.advanced + 1} :
       \E last \in {j = Len(task.cp.matches)} :
       \E next \in {[task EXCEPT
                        !.peekers[task.cp.matches[j]] =
                            IF @ = <<>> THEN @ ELSE Tail(@),
                        !.cp.advanced = j,
                        !.alreadySyncd = IF last THEN @ + 1 ELSE @,
                        !.pc = IF last THEN "loop" ELSE "next"]} :
           IF last /\ ~moreToSyncOf(usersToSync[k].sync, next.alreadySyncd)
           THEN TaskReturns(k, next, "success")
           ELSE TaskAwaits(k, next)
    /\ UNCHANGED <<store, faults, errors>>
    /\ TaskFrame

(* "for await (const _output of tasks)" ends: sync() resolves.             *)
PoolDrained ==
    /\ pc = "parallel"
    /\ \A i \in 1..Len(status) : status[i] \in Finished
    /\ pc' = "syncDone"
    /\ UNCHANGED <<tasks, compared, profileSync, servers, faults, errors, users, userIdx, usersToSync, status, via,
                   supplied, missing, resolved, mergeVars>>

----------------------------------------------------------------------------
(* The engine run for the configured users: the constructor, then sync().  *)

RECURSIVE SeqsUpTo(_, _)
(* The lists of at most n distinct elements of S.                          *)
SeqsUpTo(S, n) ==
    IF n = 0 THEN {<<>>}
    ELSE LET shorter == SeqsUpTo(S, n - 1)
         IN  shorter \cup {Append(q, x) : q \in shorter, x \in S}

(* No call of syncUser outside the pool.                                   *)
LoopIdle ==
    /\ mode = [mode |-> "full"]
    /\ peekers = [s \in 1..Len(servers) |-> <<>>]
    /\ alreadySyncd = 0
    /\ cp = NoCopy
    /\ run = 1
    /\ tips = <<>>
    /\ log = <<>>
    /\ compared = <<>>
    /\ profileSync = <<>>

(* The one item a user of the pool has.                                    *)
TaskItem(uid) == UserItem(uid, CHOOSE it \in ListedItems(1) : TRUE)

(* The servers' items when server `source` holds the item of each user of  *)
(* `us` and no other server holds an item.                                 *)
HeldOn(source, us) ==
    [s \in 1..Len(servers) |-> IF s = source THEN {TaskItem(u) : u \in us} ELSE {}]

(* The servers of diskuto-sync.sample.toml: localhost, a destination, and   *)
(* blog, read-only.                                                        *)
TwoServers == <<[isDest |-> TRUE], [isDest |-> FALSE]>>

(* opts.users with n users: the configured users are distinct, and named  *)
(* here in the order of the configuration.                                 *)
FirstUsers(n) == [i \in 1..n |-> i]

(* The state after construction, for the configured users `us`, when blog  *)
(* holds an item of each user of `owners`.                                 *)
Constructed(us, owners) ==
    /\ servers = TwoServers
    /\ users = us
    /\ pc = "ready"
    /\ faults = 0
    /\ errors = 0
    /\ userIdx = 0
    /\ usersToSync = <<>>
    /\ status = <<>>
    /\ via = NoVia
    /\ supplied = {}
    /\ resolved = NoPass
    /\ missing = {}
    /\ LoopIdle
    /\ store = HeldOn(2, owners)
    /\ initial = store
    /\ tasks = <<>>

(* The users of sync()'s runs that have an item on blog.                   *)
MaxSyncOwners == 1

InitSync ==
    \E n \in 0..MaxSyncUsers : Constructed(FirstUsers(n), 1..MaxSyncOwners)

NextSync ==
    \/ SyncStart
    \/ ResolveUser
    \/ ResolveUserCopy
    \/ DiscoveryDone
    \/ StartTask
    \/ TaskPeekReturns
    \/ TaskReconcile
    \/ TaskCopyCallReturns
    \/ TaskCursorAdvanced
    \/ PoolDrained

SpecSync == InitSync /\ [][NextSync]_vars

----------------------------------------------------------------------------
(* The discovery alone, up to the hand-off, for up to MaxUsers users.      *)

InitDiscovery ==
    \E n \in 0..MaxUsers : Constructed(FirstUsers(n), {})

NextDiscovery ==
    \/ SyncStart
    \/ ResolveUser
    \/ ResolveUserCopy
    \/ DiscoveryDone

SpecDiscovery == InitDiscovery /\ [][NextDiscovery]_vars

----------------------------------------------------------------------------
(* The pool alone, from the hand-off of a map of n tasks.                  *)

MaxTasks == 6

(* The users of the pool's runs that have an item on blog.                 *)
MaxOwners == 2

(* The pool at the hand-off of n tasks, each with the option `sync`.       *)
HandedOff(n, sync) ==
    /\ users = [i \in 1..n |-> i]
    /\ userIdx = n
    /\ usersToSync = [i \in 1..n |->
                         [id |-> i, displayName |-> "", knownName |-> "",
                          sync |-> sync]]
    /\ status = [i \in 1..n |-> "pending"]
    /\ tasks = [i \in 1..n |-> NoTask]
    /\ pc = "parallel"
    /\ faults = 0
    /\ errors = 0
    /\ via = NoVia
    /\ supplied = {}
    /\ resolved = NoPass
    /\ missing = {}
    /\ LoopIdle

InitPool ==
    /\ servers = TwoServers
    /\ \E n \in 0..MaxTasks : HandedOff(n, [mode |-> "full", follows |-> FALSE])
    /\ store = HeldOn(2, 1..MaxOwners)
    /\ initial = store

NextPool ==
    \/ StartTask
    \/ TaskPeekReturns
    \/ TaskReconcile
    \/ TaskCopyCallReturns
    \/ TaskCursorAdvanced
    \/ PoolDrained

SpecPool == InitPool /\ [][NextPool]_vars

FairSpecPool == SpecPool /\ WF_vars(NextPool)

----------------------------------------------------------------------------
(* The pool with an item to copy in every task: a first server that holds  *)
(* the item of every user, and one or two servers that hold none and are   *)
(* destinations.                                                           *)

MaxPushTasks == 6

(* The most tasks of a run with two destinations.                          *)
MaxTwoPushTasks == 2

(* A source and one destination, for up to MaxPushTasks tasks, or a source *)
(* and two destinations, for up to MaxTwoPushTasks tasks.                  *)
PushRuns ==
    {[servers |-> <<[isDest |-> FALSE], [isDest |-> TRUE]>>, n |-> n] :
        n \in 1..MaxPushTasks}
    \cup {[servers |-> <<[isDest |-> FALSE], [isDest |-> TRUE], [isDest |-> TRUE]>>,
           n |-> n] : n \in 1..MaxTwoPushTasks}

InitPushes ==
    /\ \E r \in PushRuns :
           /\ servers = r.servers
           /\ HandedOff(r.n, [mode |-> "latest", count |-> 1, follows |-> FALSE])
    /\ store = HeldOn(1, 1..Len(status))
    /\ initial = store

SpecPushes == InitPushes /\ [][NextPool]_vars

(* The entries of task k started for a push that has not returned: the     *)
(* "start" of a copyItem entry with no later putItem to its destination    *)
(* and no later end of the entry.                                          *)
PushesInFlight(k) ==
    LET events == tasks[k].log
        closes(i, j) ==
            \/ /\ events[j].type = "putItem"
               /\ events[j].server = events[i].dest
               /\ events[j].signature = events[i].signature
            \/ /\ events[j].type = "end"
               /\ events[j].event = "copyItem"
               /\ events[j].dest = events[i].dest
               /\ events[j].signature = events[i].signature
    IN  {i \in 1..Len(events) :
            /\ events[i].type = "start"
            /\ events[i].event = "copyItem"
            /\ ~\E j \in (i + 1)..Len(events) : closes(i, j)}

(* The pushes in flight, over all the tasks.                               *)
InFlight == UNION {{<<k, i>> : i \in PushesInFlight(k)} : k \in 1..Len(tasks)}

(* C39: within a task at most one push is in flight, and only while the    *)
(* task is running and suspended on putItem; a push is started only when   *)
(* the fetch of its item from the source has returned with the bytes, and  *)
(* the entry of a later pass is started only when the push of the pass     *)
(* before it has resolved; a cursor is advanced only when no push of the   *)
(* iteration is in flight and, the item having been read, every            *)
(* destination has been pushed to; so that at most `parallelism` pushes    *)
(* are in flight over the pool.                                            *)
SequentialPushes ==
    /\ [](\A k \in 1..Len(tasks) :
              LET events == tasks[k].log
                  entries == {i \in 1..Len(events) :
                                 events[i].type = "start" /\ events[i].event = "copyItem"}
                  pushed == {i \in 1..Len(events) : events[i].type = "putItem"}
              IN  /\ Cardinality(PushesInFlight(k)) <= 1
                  /\ PushesInFlight(k) # {}
                         => status[k] = "running" /\ tasks[k].pc = "putItem"
                  /\ \A i \in PushesInFlight(k) \cup pushed :
                         \E j \in 1..(i - 1) :
                             /\ events[j].type = "getItemBytes"
                             /\ events[j].signature = events[i].signature
                             /\ events[j].found
                  /\ \A i, j \in entries :
                         (i < j /\ events[i].signature = events[j].signature)
                             => \E m \in (i + 1)..(j - 1) :
                                    /\ events[m].type = "putItem"
                                    /\ events[m].server = events[i].dest
                                    /\ events[m].ok)
    /\ [][\A k \in 1..Len(tasks) :
              (tasks[k].pc = "next" /\ tasks'[k] # tasks[k])
                  => /\ PushesInFlight(k) = {}
                     /\ tasks[k].cp.found
                            => \A d \in Range(tasks[k].cp.destinations) :
                                   \E m \in (tasks[k].cp.base + 1)..Len(tasks[k].log) :
                                       /\ tasks[k].log[m].type = "putItem"
                                       /\ tasks[k].log[m].server = d
                                       /\ tasks[k].log[m].ok]_vars
    /\ [](Cardinality(InFlight) <= parallelism)

SequentialPushesReached ==
    /\ Len(tasks) = MaxTwoPushTasks
    /\ \A k \in 1..Len(tasks) : PushesInFlight(k) # {}
    /\ \E k \in 1..Len(tasks) :
       \E i \in PushesInFlight(k) :
           /\ Len(tasks[k].cp.destinations) = 2
           /\ tasks[k].log[i].dest = tasks[k].cp.destinations[2]
           /\ tasks[k].peekers = tasks[k].cp.cursors
           /\ TaskItem(k) \in store[tasks[k].cp.destinations[1]]
           /\ TaskItem(k) \notin store[tasks[k].cp.destinations[2]]

----------------------------------------------------------------------------
(* The comparators of src/src/sort.ts applied to a pair of entries.        *)

MaxSigLen == 2
MaxStamp == 2

(* Values of a Uint8Array cell.                                            *)
Bytes == {0, 1, 255}

Entries == [timestampMsUtc : 1..MaxStamp, signature : SeqsUpTo(Bytes, MaxSigLen)]

InitSort ==
    /\ servers = TwoServers
    /\ users = <<>>
    /\ pc = "compare"
    /\ faults = 0
    /\ errors = 0
    /\ userIdx = 0
    /\ usersToSync = <<>>
    /\ status = <<>>
    /\ via = NoVia
    /\ supplied = {}
    /\ resolved = NoPass
    /\ missing = {}
    /\ mode = [mode |-> "full"]
    /\ store = [s \in 1..Len(servers) |-> {}]
    /\ initial = store
    /\ peekers = [s \in 1..Len(servers) |-> <<>>]
    /\ alreadySyncd = 0
    /\ cp = NoCopy
    /\ run = 1
    /\ tips = <<>>
    /\ log = <<>>
    /\ compared \in [a : Entries, b : Entries]
    /\ profileSync = <<>>
    /\ tasks = <<>>

(* Both comparators are called on the pair, in both orders of arguments    *)
(* and on the first entry with itself.                                     *)
Compare ==
    /\ pc = "compare"
    /\ pc' = "compared"
    /\ compared' = [a |-> compared.a, b |-> compared.b,
                    asc |-> itemListEntry(compared.a, compared.b),
                    desc |-> itemListEntryDesc(compared.a, compared.b),
                    descRev |-> itemListEntryDesc(compared.b, compared.a),
                    descSelf |-> itemListEntryDesc(compared.a, compared.a)]
    /\ UNCHANGED <<tasks, profileSync, servers, faults, errors, mergeVars, schedVars>>

NextSort == Compare

SpecSort == InitSort /\ [][NextSort]_vars

----------------------------------------------------------------------------
(* #syncLatestProfile called for one user, under every configuration the  *)
(* constructor accepts.                                                    *)

ProfileUser == 1

InitProfile ==
    /\ servers \in {cfg \in Configs : ConfigOk(cfg)}
    /\ users = <<>>
    /\ pc = "profile"
    /\ faults = 0
    /\ errors = 0
    /\ userIdx = 0
    /\ usersToSync = <<>>
    /\ status = <<>>
    /\ via = NoVia
    /\ supplied = {}
    /\ resolved = NoPass
    /\ missing = {}
    /\ mode = [mode |-> "full"]
    /\ store = [s \in 1..Len(servers) |-> {}]
    /\ initial = store
    /\ peekers = [s \in 1..Len(servers) |-> <<>>]
    /\ alreadySyncd = 0
    /\ cp = NoCopy
    /\ run = 1
    /\ tips = <<>>
    /\ log = <<>>
    /\ compared = <<>>
    /\ profileSync = NoProfileCall
    /\ tasks = <<>>

(* A getProfile of one call of #syncLatestProfile resolves.  When the     *)
(* call has returned its outcome is kept: the sources, the outcome of the  *)
(* copy and the timestamp of the profile returned (0 when none is: null,   *)
(* or the exception of a rejected push).                                   *)
SyncLatestProfile ==
    /\ pc = "profile"
    /\ ProfileAnswered(FALSE, FALSE, ProfileUser)

(* A transport call of the profile's copy returns.                         *)
SyncLatestProfileCopy ==
    /\ pc = "profile"
    /\ ProfileCallReturns(FALSE, FALSE, ProfileUser)

NextProfile ==
    \/ SyncLatestProfile
    \/ SyncLatestProfileCopy

SpecProfile == InitProfile /\ [][NextProfile]_vars

----------------------------------------------------------------------------
(* The earlier Sync.syncUserFeed(uid, opts), lib.ts 147-171: the newest    *)
(* profile of the user is reconciled, then every user it follows is        *)
(* synchronised with syncUser(followId, opts), one after the other.        *)

MaxFeedFollows == 2
MaxFeedListed == 2

FeedUser == 1

(* profile.follows: the users followed, named in the order of the list.    *)
FeedFollows == {[i \in 1..n |-> FeedUser + i] : n \in 0..MaxFeedFollows}

(* What the two servers hold of a followed user: the first lists n items,  *)
(* the second those or all but the newest.                                 *)
FeedStores ==
    {<<ListedItems(nm[1]), ListedItems(nm[2])>> :
        nm \in {p \in (0..MaxFeedListed) \X (0..MaxFeedListed) : p[2] \in {p[1] - 1, p[1]}}}

FeedStarting == [type |-> "operation", event |-> "starting", name |-> "Syncing user feed"]
FeedDone == [type |-> "operation", event |-> "done", name |-> "Syncing user feed"]
FeedDoneWrongType ==
    [type |-> "operation", event |-> "done", name |-> "Syncing user feed",
     error |-> "Got wrong item type"]

InitFeed ==
    /\ servers = <<[isDest |-> FALSE], [isDest |-> TRUE]>>
    /\ mode \in MaxCountOpts
    /\ store = [s \in 1..Len(servers) |-> {}]
    /\ initial = store
    /\ pc = "feed"
    /\ peekers = [s \in 1..Len(servers) |-> <<>>]
    /\ alreadySyncd = 0
    /\ cp = NoCopy
    /\ run = 1
    /\ faults = 0
    /\ errors = 0
    /\ tips = <<>>
    /\ log = <<>>
    /\ compared = <<>>
    /\ profileSync = NoProfileCall
    /\ tasks = <<>>
    /\ SchedIdle

(* syncUserFeed up to its first await, lib.ts 147-150: the operation is    *)
(* logged as starting and #syncLatestProfile is called.                    *)
SyncUserFeedStart ==
    /\ pc = "feed"
    /\ log' = <<FeedStarting>>
    /\ pc' = "profile"
    /\ UNCHANGED <<tasks, compared, profileSync, servers, mode, store, initial, peekers,
                   alreadySyncd, cp, run, faults, errors, tips, schedVars>>

(* A getProfile of "await this.#syncLatestProfile(uid)" resolves, lib.ts   *)
(* 150 and 177-208.                                                        *)
SyncUserFeedProfile ==
    /\ pc = "profile"
    /\ ProfileAnswered(TRUE, FALSE, FeedUser)

(* A transport call of the profile's copy returns in that call, lib.ts     *)
(* 120 and 137.                                                            *)
SyncUserFeedProfileCopy ==
    /\ pc = "profile"
    /\ ProfileCallReturns(TRUE, FALSE, FeedUser)

(* syncUser(followId, opts) is called for the k-th of `follows`, after     *)
(* the events `logged`, lib.ts 165-168 and 38-56: it runs to the first     *)
(* evaluation of its loop condition on what the servers hold of that       *)
(* user; after the last the operation is logged done, lib.ts 170.          *)
FeedSyncUser(logged, follows, k) ==
    IF k > Len(follows)
    THEN /\ log' = Append(logged, FeedDone)
         /\ pc' = "feedDone"
         /\ UNCHANGED <<store, initial, peekers, alreadySyncd, cp, tips, userIdx>>
    ELSE \E held \in FeedStores :
             /\ store' = held
             /\ initial' = held
             /\ log' = logged
                    \o <<[type |-> "operation", event |-> "starting"]>>
                    \o [s \in 1..Len(servers) |-> [type |-> "getUserItems", server |-> s]]
             /\ peekers' = [s \in 1..Len(servers) |-> SortDesc(held[s])]
             /\ alreadySyncd' = 0
             /\ cp' = NoCopy
             /\ tips' = <<>>
             /\ userIdx' = k
             /\ pc' = "loop"

(* syncUserFeed resumes with the outcome of #syncLatestProfile, lib.ts     *)
(* 150-168.  The exception of a rejected push goes on to the caller.  With *)
(* no profile the operation is logged done, without an error, and the call *)
(* throws (151-155); with an item that is no profile it is logged done     *)
(* with the error "Got wrong item type" and the call throws (157-162).     *)
(* Else the first followed user is synchronised.                           *)
SyncUserFeedResumes ==
    /\ pc = "profiled"
    /\ IF profileSync.result.threw
       THEN /\ pc' = "error"
            /\ UNCHANGED <<log, errors, users, store, initial, peekers, alreadySyncd,
                           cp, tips, userIdx>>
       ELSE IF profileSync.result.null
       THEN /\ log' = Append(log, FeedDone)
            /\ pc' = "error"
            /\ UNCHANGED <<errors, users, store, initial, peekers, alreadySyncd, cp,
                           tips, userIdx>>
       ELSE \E isProfile \in BOOLEAN :
                IF ~isProfile
                THEN /\ log' = Append(log, FeedDoneWrongType)
                     /\ errors' = errors + 1
                     /\ pc' = "error"
                     /\ UNCHANGED <<users, store, initial, peekers, alreadySyncd, cp,
                                    tips, userIdx>>
                ELSE \E follows \in FeedFollows :
                         /\ users' = follows
                         /\ errors' = errors
                         /\ FeedSyncUser(log, follows, 1)
    /\ UNCHANGED <<tasks, compared, profileSync, servers, mode, run, faults,
                   usersToSync, status, via, supplied, missing, resolved>>

(* "await this.syncUser(followId, opts)" has resolved, lib.ts 165-170     *)
(* (userIdx: which of the followed users it was called for): the next      *)
(* followed user is synchronised, or the operation is done.                *)
SyncUserFeedNext ==
    /\ pc = "done"
    /\ userIdx >= 1
    /\ FeedSyncUser(log, users, userIdx + 1)
    /\ UNCHANGED <<tasks, compared, profileSync, servers, mode, run, faults, errors,
                   users, usersToSync, status, via, supplied, missing, resolved>>

(* The earlier class: syncUser called by the user of the library, or       *)
(* syncUserFeed called, which calls syncUser for every followed user.      *)
NextMaxCount ==
    \/ SyncUserMaxCountStart
    \/ SyncUserFeedStart
    \/ SyncUserFeedProfile
    \/ SyncUserFeedProfileCopy
    \/ SyncUserFeedResumes
    \/ PeekReturnsMaxCount
    \/ ReconcileMaxCount
    \/ CopyCallReturnsMaxCount
    \/ CursorAdvanced
    \/ LoopExitMaxCount
    \/ SyncUserFeedNext

InitEarlier == InitMaxCount \/ InitFeed

SpecMaxCount == InitEarlier /\ [][NextMaxCount]_vars

----------------------------------------------------------------------------
(* Properties of the merge loop and of the constructor.                    *)

Dests == {s \in 1..Len(servers) : servers[s].isDest}
UnionAtStart == UNION {initial[s] : s \in 1..Len(servers)}
PutCount(d) ==
    Cardinality({i \in 1..Len(log) : log[i].type = "putItem" /\ log[i].server = d})
CopyOps == {i \in 1..Len(log) : log[i].type \in {"getItemBytes", "putItem"}}
TopK(k) ==
    LET all == SortDesc(UnionAtStart)
    IN  {all[i] : i \in 1..(IF k < Len(all) THEN k ELSE Len(all))}

(* C1: after a run in mode "full" in which no transport call failed, every *)
(* destination holds every item that any server held when the run started. *)
Convergence ==
    (pc = "done" /\ mode.mode = "full" /\ faults = 0)
        => \A d \in Dests : UnionAtStart \subseteq store[d]

(* C2: when the push to one of several destinations of an iteration fails, *)
(* every other destination of that iteration holds the item afterwards,    *)
(* the matching cursors are past it and the loop goes on.                  *)
PushFailureIsolated ==
    (cp.failAt # 0 /\ Len(cp.destinations) >= 2)
        => /\ \A i \in 1..Len(cp.destinations) \ {cp.failAt} :
                  ItemOf(cp.signature) \in store[cp.destinations[i]]
           /\ \A s \in Range(cp.matches) :
                  peekers[s] = <<>> \/ peekers[s][1].signature # cp.signature
           /\ pc \in {"loop", "done"}

(* C3: in mode "latest" with count k a run makes at most k iterations, so  *)
(* at most k items are pushed to any one server.                           *)
BoundedCount ==
    mode.mode = "latest"
        => /\ Len(tips) <= mode.count
           /\ alreadySyncd <= mode.count
           /\ \A d \in 1..Len(servers) : PutCount(d) <= mode.count

BoundedCountReached ==
    /\ mode.mode = "latest"
    /\ mode.count = MaxCount
    /\ pc = "done"
    /\ Len(tips) = mode.count
    /\ Timestamps # {}
    /\ \E d \in Dests : PutCount(d) = mode.count

(* C4: after a run in mode "latest" with count k in which no transport     *)
(* call failed, the items reconciled are the k newest items of the union   *)
(* of the servers' items at the start, and every destination holds them.   *)
LatestReconcilesNewest ==
    (pc = "done" /\ mode.mode = "latest" /\ faults = 0)
        => /\ Range(tips) = TopK(mode.count)
           /\ \A d \in Dests : TopK(mode.count) \subseteq store[d]

(* C5: a second run that follows a run without failures fetches no item    *)
(* and pushes no item.                                                     *)
Idempotence ==
    (run = 2 /\ pc # "ready" /\ faults = 0) => CopyOps = {}

(* C10: the constructor rejects exactly the configurations with fewer than *)
(* 2 servers or without a destination, and no transport call is made       *)
(* under such a configuration.                                             *)
ConfigCheckedBeforeSync ==
    /\ pc # "new" => (pc = "configError" <=> (Len(servers) < 2 \/ Dests = {}))
    /\ log # <<>> => (Len(servers) >= 2 /\ Dests # {})

ConfigCheckedBeforeSyncReached ==
    /\ \E i \in 1..Len(log) : log[i].type = "putItem"
    /\ \E i \in 1..Len(log) : log[i].type = "getUserItems"
    /\ Cardinality(Dests) = 1

(* C11: the timestamps of the tips selected by the successive iterations   *)
(* of one run of the merge loop never increase.                            *)
TipsNonIncreasing ==
    \A i, j \in 1..Len(tips) :
        i < j => tips[i].timestampMsUtc >= tips[j].timestampMsUtc

TipsNonIncreasingReached ==
    /\ pc = "done"
    /\ Len(tips) = Cardinality(Items)
    /\ \E i \in 1..Len(tips) - 1 : tips[i].timestampMsUtc > tips[i + 1].timestampMsUtc
    /\ \E i \in 1..Len(tips) - 1 : tips[i].timestampMsUtc = tips[i + 1].timestampMsUtc

(* C12: putItem is invoked only on servers marked as destination, for an   *)
(* item and for a profile alike (the profile copy, which does not depend   *)
(* on the items, is examined where the servers hold none), and a server    *)
(* not marked as destination holds exactly the items it held at the start. *)
WritesOnlyToDestinations ==
    /\ \A i \in 1..Len(log) :
           log[i].type = "putItem" => servers[log[i].server].isDest
    /\ run = 1 => \A s \in 1..Len(servers) : ~servers[s].isDest => store[s] = initial[s]
    /\ (pc = "ready" /\ UnionAtStart = {}) =>
           \A r \in ProfileResults :
               \A s \in Range(r.result.destinations) \cup r.result.written :
                   servers[s].isDest

WritesOnlyToDestinationsReached ==
    /\ \E i \in 1..Len(log) : log[i].type = "putItem" /\ log[i].ok
    /\ \E s \in 1..Len(servers) :
           /\ ~servers[s].isDest
           /\ s \notin Range(cp.matches)
           /\ ItemOf(cp.signature) \notin store[s]

(* C13: within one run no item is pushed twice to the same destination.    *)
NoDoubleCopy ==
    \A i, j \in 1..Len(log) :
        (/\ i < j
         /\ log[i].type = "putItem"
         /\ log[j].type = "putItem"
         /\ log[i].server = log[j].server)
            => log[i].signature # log[j].signature

(* The start event st and the start or end event en are of one entry.      *)
SameEntry(st, en) ==
    /\ st.event = en.event
    /\ st.event = "copyItem"
           => st.dest = en.dest /\ st.src = en.src /\ st.signature = en.signature

StartsOf(st) ==
    Cardinality({j \in 1..Len(log) : log[j].type = "start" /\ SameEntry(st, log[j])})
EndsOf(st) ==
    Cardinality({j \in 1..Len(log) : log[j].type = "end" /\ SameEntry(st, log[j])})

(* C16: no entry is ended more often than started, and when the run has    *)
(* finished every entry started has been ended, with success, warning or   *)
(* error.                                                                  *)
LogEntriesPaired ==
    \A i \in 1..Len(log) :
        /\ log[i].type = "start" =>
               /\ EndsOf(log[i]) <= StartsOf(log[i])
               /\ pc \in {"done", "error"} => EndsOf(log[i]) = StartsOf(log[i])
        /\ log[i].type = "end" =>
               /\ log[i].result \in {"success", "warning", "error"}
               /\ \E j \in 1..(i - 1) : log[j].type = "start" /\ SameEntry(log[j], log[i])

(* The last iteration has run to its end: its copy returned and every      *)
(* cursor it matched has been advanced.                                    *)
Completed == cp.tip # 0 /\ ~cp.logicError /\ pc \in {"loop", "peek", "done"}

(* Server s was at the tip of the last iteration.                          *)
AtTipThen(s) ==
    cp.cursors[s] # <<>> /\ cp.cursors[s][1].timestampMsUtc = cp.tip

(* The events since #copyItem was called in the last iteration.            *)
SinceCopy == (cp.base + 1)..Len(log)

(* The events of the last copy that fetched: those after its getItemBytes. *)
LastFetch ==
    Max({0} \cup {i \in 1..Len(log) : log[i].type = "getItemBytes"})
AfterLastFetch == SubSeq(log, LastFetch + 1, Len(log))

(* C22: when the source returned nothing for the tip item and m >= 1       *)
(* destinations were to receive it, each of the m destinations has its     *)
(* entry started and then ended with error, no push was attempted, and     *)
(* the loop has advanced past the item and goes on.                        *)
FetchNothingLogged ==
    (Completed /\ ~cp.found /\ Len(cp.destinations) >= 1)
        => /\ \A i \in 1..Len(cp.destinations) :
                  \E j, k \in 1..Len(AfterLastFetch) :
                      /\ j < k
                      /\ AfterLastFetch[j]
                             = Started(cp.source, cp.destinations[i], cp.signature)
                      /\ AfterLastFetch[k]
                             = Ended(cp.source, cp.destinations[i], cp.signature, "error")
           /\ \A j \in 1..Len(AfterLastFetch) : AfterLastFetch[j].type # "putItem"
           /\ alreadySyncd = Len(tips)
           /\ \A s \in Range(cp.matches) :
                  peekers[s] = <<>> \/ peekers[s][1] # getUserItems(s)[1]

(* The item the cursor of server s consumed last in the first run: its     *)
(* cursor walks the list the server gave when the run started.             *)
Consumed(s) ==
    SortDesc(initial[s])[Cardinality(initial[s]) - Len(peekers[s])]

(* C23: the servers counted as holding the item of an iteration are        *)
(* exactly those whose peeked item has its signature, so a server peeking  *)
(* another item with the tip's timestamp is not among them; and items      *)
(* with equal timestamps are reconciled one by one in the order of their   *)
(* signatures.                                                             *)
RecordIdentityBySignature ==
    (cp.tip # 0 /\ pc \in {"loop", "done"})
        => /\ \A s \in Range(cp.matches) : Consumed(s).signature = cp.signature
           /\ \A s \in 1..Len(servers) \ Range(cp.matches) :
                  peekers[s] = <<>> \/ peekers[s][1].signature # cp.signature
           /\ \A i, j \in 1..Len(tips) :
                  i < j => itemListEntryDesc(tips[i], tips[j]) < 0

(* Server s is at the tip: its cursor peeks an item of the newest peeked   *)
(* timestamp.                                                              *)
AtTip(s) == peekers[s] # <<>> /\ peekers[s][1].timestampMsUtc = Max(Timestamps)

(* C25: an iteration in which every destination server is at the tip       *)
(* fetches nothing, pushes nothing and logs nothing, advances every cursor *)
(* at the tip by one item, leaves the others, and adds one to the counter. *)
NoOpCopyAdvances ==
    /\ [][(/\ Len(tips') = Len(tips) + 1
           /\ \A s \in 1..Len(servers) : servers[s].isDest => AtTip(s))
              => /\ log' = log
                 /\ store' = store
                 /\ faults' = faults
                 /\ errors' = errors
                 /\ pc' = "next"]_vars
    /\ []((/\ cp.tip # 0
           /\ ~cp.logicError
           /\ \A s \in 1..Len(servers) : servers[s].isDest => AtTipThen(s))
              => /\ \A i \in SinceCopy :
                        /\ log[i].type \in {"start", "end"}
                        /\ log[i].event # "copyItem"
                 /\ Completed =>
                        /\ \A s \in 1..Len(servers) :
                               peekers[s] = IF AtTipThen(s) THEN Tail(cp.cursors[s])
                                            ELSE cp.cursors[s]
                        /\ alreadySyncd = Len(tips))

NoOpCopyAdvancesReached ==
    /\ pc = "loop"
    /\ cp.tip # 0
    /\ cp.destinations = <<>>
    /\ Len(cp.matches) >= 2
    /\ \E s \in 1..Len(servers) : s \notin Range(cp.matches) /\ ~servers[s].isDest
    /\ alreadySyncd = 1
    /\ \A i \in 1..Len(log) : log[i].type \in {"start", "getUserItems"}
    /\ Timestamps # {}

(* The pushes made so far to server d.                                     *)
PutsTo(d) == {i \in 1..Len(log) : log[i].type = "putItem" /\ log[i].server = d}

(* C32: over items of pairwise distinct timestamps, in mode "full" and     *)
(* without a failed call, every push to a destination is of an item it     *)
(* did not hold at the start and no item is pushed to it twice; when the   *)
(* run has ended the items pushed to it are exactly those of the union it  *)
(* did not hold, and the tips are the union's items from newest to oldest. *)
ExactlyMissingCopied ==
    (mode.mode = "full" /\ faults = 0)
        => \A d \in 1..Len(servers) :
               /\ \A i \in PutsTo(d) :
                      /\ servers[d].isDest
                      /\ ItemOf(log[i].signature) \in UnionAtStart \ initial[d]
                      /\ \A j \in PutsTo(d) : log[j].signature = log[i].signature => i = j
               /\ (pc = "done" /\ servers[d].isDest)
                      => /\ {ItemOf(log[i].signature) : i \in PutsTo(d)}
                                = UnionAtStart \ initial[d]
                         /\ Cardinality(PutsTo(d))
                                = Cardinality(UnionAtStart) - Cardinality(initial[d])
                         /\ tips = SortDesc(UnionAtStart)

ExactlyMissingCopiedReached ==
    /\ pc = "done"
    /\ faults = 0
    /\ servers = <<[isDest |-> FALSE], [isDest |-> TRUE]>>
    /\ initial = <<DistinctItems,
                   {it \in DistinctItems : it.timestampMsUtc \in {300, 100}}>>
    /\ Cardinality(PutsTo(2)) = 1
    /\ \A i \in PutsTo(2) : ItemOf(log[i].signature).timestampMsUtc = 200
    /\ \A i \in 1..Len(log) : log[i].type = "getItemBytes" => log[i].server = 1
    /\ [i \in 1..Len(tips) |-> tips[i].timestampMsUtc] = <<300, 200, 100>>
    /\ store[2] = DistinctItems

(* C33: with maxCount unspecified the loop of the earlier syncUser         *)
(* reconciles at most 50 items; with maxCount = n > 0 at most n; with      *)
(* maxCount <= 0 the count never ends the loop, which when it has ended    *)
(* has exhausted every cursor and reconciled every item listed.            *)
MaxCountOption ==
    /\ ~mode.specified => Len(tips) <= 50
    /\ (mode.specified /\ mode.maxCount > 0) => Len(tips) <= mode.maxCount
    /\ (mode.specified /\ mode.maxCount <= 0)
           => /\ pc = "loop" => ENABLED PeekReturnsMaxCount
              /\ (pc = "peek" /\ LastPeek /\ Timestamps # {})
                     => ENABLED ReconcileMaxCount
              /\ pc = "done" => /\ Timestamps = {}
                                /\ Len(tips) = Cardinality(UnionAtStart)

MaxCountOptionReached ==
    /\ ~mode.specified
    /\ pc = "done"
    /\ Len(tips) = 50
    /\ Timestamps # {}
    /\ Cardinality(UnionAtStart) = MaxListed

(* C38: the run only adds, and adds nothing new: every server always      *)
(* holds what it held at the start and only items some server held at the  *)
(* start, no step takes an item from a server, and every push is of the    *)
(* signature of an item some server held at the start.                     *)
AdditiveOnly ==
    /\ [](\A s \in 1..Len(servers) :
              /\ initial[s] \subseteq store[s]
              /\ store[s] \subseteq UnionAtStart)
    /\ [](\A i \in 1..Len(log) :
              log[i].type = "putItem"
                  => log[i].signature \in {it.signature : it \in UnionAtStart})
    /\ [][\A s \in 1..Len(servers) : store[s] \subseteq store'[s]]_vars

AdditiveOnlyReached ==
    /\ pc = "done"
    /\ \E s \in 1..Len(servers) :
           /\ initial[s] # {}
           /\ store[s] # initial[s]
           /\ store[s] = UnionAtStart
    /\ \E i \in 1..Len(log) : log[i].type = "putItem" /\ log[i].ok

(* C35: in every copy of the merge loop the source is a server at the tip  *)
(* and no destination is; no push goes to a server at the tip, nor to the  *)
(* source.                                                                 *)
SourceDestDisjoint ==
    /\ [][Len(tips') = Len(tips) + 1
              => /\ cp'.source # 0 => AtTip(cp'.source)
                 /\ \A d \in Range(cp'.destinations) : ~AtTip(d) /\ d # cp'.source]_vars
    /\ [](cp.tip # 0 =>
              \A i \in SinceCopy :
                  log[i].type = "putItem"
                      => /\ ~AtTipThen(log[i].server)
                         /\ log[i].server # cp.source
                         /\ log[i].server \in Range(cp.destinations))

SourceDestDisjointReached ==
    /\ cp.source # 0
    /\ cp.found
    /\ cp.failAt = 0
    /\ \E s \in Range(cp.matches) :
           /\ s # cp.source
           /\ servers[s].isDest
           /\ PutsTo(s) = {}
    /\ \E d \in Range(cp.destinations) : PutsTo(d) # {}

(* C31: whenever the loop has an iteration to make and some cursor is not  *)
(* exhausted, the cursors matching the tip are those peeking an item of    *)
(* the newest timestamp, there is at least one and the first has a value;  *)
(* no iteration has taken the branch of the "coding logic error".          *)
LogicErrorUnreachable ==
    /\ ~cp.logicError
    /\ (Peeking(moreToSync) /\ Timestamps # {})
           => /\ Matches(Tip) # <<>>
              /\ Range(Matches(Tip)) = {s \in 1..Len(servers) : AtTip(s)}
              /\ peekers[Matches(Tip)[1]] # <<>>

LogicErrorUnreachableReached ==
    /\ pc = "peek"
    /\ LastPeek
    /\ Timestamps # {}
    /\ cp.tip # 0
    /\ peekers[1] = <<>>
    /\ 1 \notin Range(cp.matches)
    /\ Matches(Tip)[1] = 2

(* C26: an iteration advances every cursor at the tip by exactly one item  *)
(* and leaves every other cursor, with an older item or exhausted, as it   *)
(* was; so at least one cursor advances.                                   *)
CursorFrame ==
    (cp.tip # 0 /\ ~cp.logicError /\ pc \in {"loop", "peek", "done", "error"})
        => /\ \A s \in 1..Len(servers) :
                  peekers[s] = IF AtTipThen(s) THEN Tail(cp.cursors[s])
                               ELSE cp.cursors[s]
           /\ \E s \in 1..Len(servers) : Len(peekers[s]) = Len(cp.cursors[s]) - 1

RECURSIVE TotalRefs(_)
(* The number of item references the servers 1..n gave at the start.       *)
TotalRefs(n) == IF n = 0 THEN 0 ELSE Cardinality(initial[n]) + TotalRefs(n - 1)

(* C27: the merge loop ends; in mode "full" it has ended exactly when      *)
(* every cursor is exhausted, after at most as many iterations as the      *)
(* servers gave item references; in mode "latest" with count k after at    *)
(* most k iterations.                                                      *)
LoopTerminates ==
    /\ [](pc = "loop" => <>(pc \in {"done", "error"}))
    /\ []((pc \in {"done", "error"} /\ mode.mode = "full") => Timestamps = {})
    /\ [](mode.mode = "full" => Len(tips) <= TotalRefs(Len(servers)))
    /\ [](mode.mode = "latest" => Len(tips) <= mode.count)

(* C28: the copy of an iteration fetches the item once, from its source,   *)
(* when some destination server is not at the tip, however many there      *)
(* are, and does not fetch when there is none: the fetch is awaited only   *)
(* in the first case, and once it has returned it is the only one.         *)
SingleFetch ==
    (cp.tip # 0 /\ ~cp.logicError)
        => LET fetches == {i \in SinceCopy : log[i].type = "getItemBytes"}
               lacking == \E s \in 1..Len(servers) : servers[s].isDest /\ ~AtTipThen(s)
           IN  /\ Cardinality(fetches) =
                      (IF lacking /\ pc # "getItemBytes" THEN 1 ELSE 0)
               /\ pc = "getItemBytes" => lacking
               /\ \A i \in fetches :
                      /\ log[i].server = cp.source
                      /\ log[i].signature = cp.signature

SingleFetchReached ==
    /\ Len(cp.destinations) = 2
    /\ cp.found
    /\ cp.failAt = 0
    /\ Cardinality({i \in 1..Len(log) : log[i].type = "getItemBytes"}) = 1
    /\ Cardinality({i \in 1..Len(log) : log[i].type = "putItem" /\ log[i].ok}) = 2

(* The servers that returned the newest of the profiles.                   *)
NewestProfile(profiles) ==
    {s \in 1..Len(servers) :
        /\ profiles[s] # 0
        /\ \A t \in 1..Len(servers) : profiles[t] <= profiles[s]}

(* C29: the source of a copy is the first server, in the order of the      *)
(* configuration, among those at the tip, respectively among those that    *)
(* returned the newest profile (examined where the servers hold no item);  *)
(* being a function of the servers' states, it is the same in every run    *)
(* over the same states.                                                   *)
DeterministicSource ==
    /\ [][(Len(tips') = Len(tips) + 1 /\ cp'.source # 0)
              => cp'.source = Min({s \in 1..Len(servers) : AtTip(s)})]_vars
    /\ []((pc = "ready" /\ UnionAtStart = {}) =>
              \A a \in ProfileAnswers :
                  \A r \in {syncLatestProfile(a.profiles, a.found, a.failAt)} :
                      r.source # 0 => r.source = Min(NewestProfile(a.profiles)))

DeterministicSourceReached ==
    /\ cp.source = 2
    /\ cp.matches = <<2, 3>>
    /\ cp.destinations = <<1>>
    /\ \E i \in 1..Len(log) : log[i].type = "getItemBytes" /\ log[i].server = 2

----------------------------------------------------------------------------
(* Properties of the discovery and of the pool.                            *)

Terminal == {"syncDone", "rejected"}

Synchronised(uid) ==
    \E k \in 1..Len(status) : usersToSync[k].id = uid /\ status[k] \in Finished

(* C6: the map holds one entry per user id, and the entry of a user for    *)
(* which some addition supplied a non-empty displayName or knownName has   *)
(* a non-empty displayName or knownName.                                   *)
DedupMerge ==
    /\ \A i, j \in 1..Len(usersToSync) :
           usersToSync[i].id = usersToSync[j].id => i = j
    /\ \A i \in 1..Len(usersToSync) :
           usersToSync[i].id \in supplied
               => usersToSync[i].displayName # "" \/ usersToSync[i].knownName # ""

DedupMergeReached ==
    /\ pc = "parallel"
    /\ \E u \in UserIds :
           /\ Direct(u) = 1
           /\ via[u] = 2
           /\ u \in supplied
           /\ Cardinality({i \in 1..Len(usersToSync) : usersToSync[i].id = u}) = 1

(* The ids of the map q, the entry of uid in it, the users a follow list   *)
(* names, and the first non-empty name the list gives to uid ("" if none). *)
Ids(q) == {q[i].id : i \in 1..Len(q)}
Entry(q, uid) == q[IndexOf(q, uid)]
Followed(follows) == {follows[i].user : i \in 1..Len(follows)}
FirstName(follows, uid) ==
    LET named == {i \in 1..Len(follows) :
                     follows[i].user = uid /\ follows[i].displayName # ""}
    IN  IF named = {} THEN "" ELSE follows[Min(named)].displayName

(* C19 as stated: after the pass of a directly configured user whose       *)
(* follows flag is set, every user of the profile's follow list has a task *)
(* with the parent's sync and with knownName equal to the name the list    *)
(* gives; after the pass of one whose flag is not set, no id but the       *)
(* user's own has been added.                                              *)
FollowExpansionAlways ==
    [][userIdx' = userIdx + 1 =>
           IF resolved'.sync.follows
           THEN \A i \in 1..Len(resolved'.follows) :
                    /\ resolved'.follows[i].user \in Ids(usersToSync')
                    /\ Entry(usersToSync', resolved'.follows[i].user).sync
                           = resolved'.sync
                    /\ Entry(usersToSync', resolved'.follows[i].user).knownName
                           = resolved'.follows[i].displayName
           ELSE Ids(usersToSync') = Ids(usersToSync) \cup {resolved'.id}]_vars

(* C19: after the pass of a directly configured user the map holds, one    *)
(* entry per id, the ids it held, the user's own and, iff the user's       *)
(* follows flag is set, those of the profile's follow list, however often  *)
(* the list names a user.  An entry this pass created for a followed user  *)
(* carries the parent's sync, no displayName, and as knownName the first   *)
(* non-empty name the list gives that user.  An entry the map already held *)
(* keeps its place, its id and its sync; its knownName is kept when not    *)
(* empty and is else the first non-empty name the list walked gives its    *)
(* user; its displayName is kept when not empty, and in any case when it   *)
(* is not the entry of the user of the pass.  The entry of the user of the *)
(* pass, entered before the list is walked, is as one the map held: when   *)
(* this pass created it, it has the user's sync and as knownName the first *)
(* non-empty name the list gives the user itself.                          *)
FollowExpansion ==
    [][userIdx' = userIdx + 1 =>
           LET walked == IF resolved'.sync.follows THEN resolved'.follows ELSE <<>>
           IN  /\ Ids(usersToSync') =
                      Ids(usersToSync) \cup {resolved'.id} \cup Followed(walked)
               /\ Len(usersToSync') = Cardinality(Ids(usersToSync'))
               /\ \A u \in Ids(usersToSync') \ (Ids(usersToSync) \cup {resolved'.id}) :
                      /\ Entry(usersToSync', u).sync = resolved'.sync
                      /\ Entry(usersToSync', u).knownName = FirstName(walked, u)
                      /\ Entry(usersToSync', u).displayName = ""
               /\ resolved'.id \notin Ids(usersToSync) =>
                      /\ Entry(usersToSync', resolved'.id).sync = resolved'.sync
                      /\ Entry(usersToSync', resolved'.id).knownName
                             = FirstName(walked, resolved'.id)
               /\ \A k \in 1..Len(usersToSync) :
                      /\ usersToSync'[k].id = usersToSync[k].id
                      /\ usersToSync'[k].sync = usersToSync[k].sync
                      /\ usersToSync'[k].knownName =
                             IF usersToSync[k].knownName # ""
                             THEN usersToSync[k].knownName
                             ELSE FirstName(walked, usersToSync[k].id)
                      /\ (usersToSync[k].displayName # ""
                             \/ usersToSync[k].id # resolved'.id)
                             => usersToSync'[k].displayName
                                    = usersToSync[k].displayName]_vars

(* The follows flag was set and the list of MaxFollows entries named two   *)
(* users not in the map, one of them twice under different names: each has *)
(* one task, with the parent's sync and the first of its names.            *)
FollowExpansionReached ==
    /\ pc = "discovery"
    /\ resolved.sync.follows
    /\ resolved.sync.mode = "latest"
    /\ Len(resolved.follows) = MaxFollows
    /\ Len(usersToSync) = 3
    /\ \A i \in 1..Len(resolved.follows) :
           /\ resolved.follows[i].user # resolved.id
           /\ Direct(resolved.follows[i].user) = 0
           /\ Entry(usersToSync, resolved.follows[i].user).sync = resolved.sync
    /\ \E i, j \in 1..Len(resolved.follows) :
           /\ i < j
           /\ resolved.follows[i].user = resolved.follows[j].user
           /\ resolved.follows[i].displayName = "name"
           /\ resolved.follows[j].displayName = "other"
           /\ via[resolved.follows[i].user] = 2
           /\ Entry(usersToSync, resolved.follows[i].user).knownName = "name"

(* C21: an entry of the map gets its sync from the addition that creates   *)
(* it, the first for its id; no later step, of the discovery or of the     *)
(* pool, changes the id or the sync of an entry or a displayName or        *)
(* knownName that is not empty.                                            *)
FirstSeenModeWins ==
    [][/\ Len(usersToSync') >= Len(usersToSync)
       /\ \A k \in 1..Len(usersToSync) :
              /\ usersToSync'[k].id = usersToSync[k].id
              /\ usersToSync'[k].sync = usersToSync[k].sync
              /\ usersToSync[k].displayName # ""
                     => usersToSync'[k].displayName = usersToSync[k].displayName
              /\ usersToSync[k].knownName # ""
                     => usersToSync'[k].knownName = usersToSync[k].knownName
       /\ \A k \in (Len(usersToSync) + 1)..Len(usersToSync') :
              usersToSync'[k].sync = resolved'.sync]_vars

FirstSeenModeWinsReached ==
    /\ pc = "discovery"
    /\ resolved.id # 0
    /\ via[resolved.id] >= 1
    /\ Entry(usersToSync, resolved.id).sync.mode = "full"
    /\ resolved.sync.mode = "latest"
    /\ Entry(usersToSync, resolved.id).knownName = ""
    /\ Entry(usersToSync, resolved.id).displayName # ""

(* C24: a task is started, and makes its first event (the start of its    *)
(* syncUserItems entry), only when the profile of every configured user    *)
(* has been resolved and every configured user is in the map; there is no  *)
(* task during the discovery; and no step after which a task has been      *)
(* started changes the map.                                                *)
DiscoveryBeforeParallel ==
    /\ [](\A k \in 1..Len(tasks) : status[k] = "pending" <=> tasks[k].log = <<>>)
    /\ [](pc = "discovery" => tasks = <<>>)
    /\ []((\E k \in 1..Len(status) : status[k] # "pending")
              => /\ userIdx = Len(users)
                 /\ \A i \in 1..Len(users) : users[i] \in Ids(usersToSync)
                 /\ Len(status) = Len(usersToSync))
    /\ [][(\E k \in 1..Len(status') : status'[k] # "pending")
              => usersToSync' = usersToSync]_vars

DiscoveryBeforeParallelReached ==
    /\ pc = "parallel"
    /\ Running # {}
    /\ Len(users) = MaxSyncUsers
    /\ Len(usersToSync) > Len(users)
    /\ status[Len(status)] = "success"

(* The tasks of user uid that have been started.                           *)
StartedFor(uid) ==
    {k \in 1..Len(status) : usersToSync[k].id = uid /\ status[k] # "pending"}

(* C34: the synchronisations in progress are for pairwise distinct users,  *)
(* at most one synchronisation is ever started for a user, and one that    *)
(* has ended is not started again.                                         *)
NoConcurrentSameUser ==
    /\ [](\A i, j \in Running : usersToSync[i].id = usersToSync[j].id => i = j)
    /\ [](\A u \in UserIds : Cardinality(StartedFor(u)) <= 1)
    /\ [][\A k \in 1..Len(status) :
              status[k] \in Finished => status'[k] = status[k]]_vars

NoConcurrentSameUserReached ==
    /\ pc = "parallel"
    /\ Cardinality(Running) >= 2
    /\ \E k \in Running :
           /\ Direct(usersToSync[k].id) = 1
           /\ via[usersToSync[k].id] >= 1
    /\ \E k \in 1..Len(status) : status[k] \in Finished

(* C36: the tasks handed to the pool are exactly the configured users and  *)
(* the users named in the follow lists walked; a follow list is walked     *)
(* only in the pass of a configured user whose follows flag is set, for    *)
(* the profile fetched in that pass, and every profile fetched is that of  *)
(* a configured user.                                                      *)
OneLevelExpansion ==
    /\ [](pc \in {"parallel", "syncDone"}
              => /\ Ids(usersToSync) = Range(users) \cup {u \in UserIds : via[u] >= 1}
                 /\ Len(status) = Cardinality(Ids(usersToSync)))
    /\ [](resolved.id # 0 => resolved.id \in Range(users))
    /\ [][via' # via
              => /\ userIdx' = userIdx + 1
                 /\ resolved'.id = users[userIdx']
                 /\ resolved'.sync.follows
                 /\ \A u \in UserIds :
                        via'[u] = via[u] + FollowCount(resolved'.follows, u, 1)]_vars

OneLevelExpansionReached ==
    /\ pc = "parallel"
    /\ Len(users) = MaxSyncUsers
    /\ Len(usersToSync) = Len(users) + 1
    /\ \E u \in UserIds : Direct(u) = 0 /\ via[u] = MaxSyncUsers
    /\ \E k \in 1..Len(status) : Direct(usersToSync[k].id) = 0 /\ status[k] = "running"

(* C37: a failure during discovery aborts the whole run.  When no server   *)
(* has the profile of a configured user, or a push of the profile raises,  *)
(* sync() rejects in that pass: the user and the users after it are not    *)
(* resolved, no task of the pool was or is ever started, and nothing       *)
(* happens after the rejection.                                            *)
DiscoveryAbort ==
    /\ [](pc = "rejected" => /\ status = <<>>
                             /\ userIdx < Len(users)
                             /\ Ids(usersToSync) \subseteq
                                    {users[i] : i \in 1..userIdx}
                                        \cup {u \in UserIds : via[u] >= 1})
    /\ [][pc = "discovery" /\ (missing' # missing
                                  \/ (faults' # faults /\ errors' = errors))
              => pc' = "rejected" /\ userIdx' = userIdx
                 /\ usersToSync' = usersToSync]_vars
    /\ [][pc = "rejected" => UNCHANGED vars]_vars

DiscoveryAbortReached ==
    /\ pc = "rejected"
    /\ Len(users) = MaxSyncUsers
    /\ userIdx = 1
    /\ missing = {}
    /\ faults = 1
    /\ errors = 0
    /\ usersToSync # <<>>
    /\ status = <<>>

(* C7: the number of tasks started and not finished never exceeds the      *)
(* width of the pool.                                                      *)
BoundedConcurrency == Cardinality(Running) <= parallelism

BoundedConcurrencyReached ==
    /\ Cardinality(Running) = parallelism
    /\ Pending # {}

(* C8: a task that failed has a logged "error" outcome and does not make   *)
(* sync() reject; sync() resolves only when every task has its outcome,    *)
(* and after a failure every task does reach its outcome.                  *)
TaskFailureIsolated ==
    /\ []((\E i \in 1..Len(status) : status[i] = "error") => pc # "rejected")
    /\ [](pc = "syncDone" => \A i \in 1..Len(status) : status[i] \in Finished)
    /\ ((\E i \in 1..Len(status) : status[i] = "error")
           ~> (pc = "syncDone" /\ \A i \in 1..Len(status) : status[i] \in Finished))

TaskFailureIsolatedReached ==
    /\ pc = "syncDone"
    /\ Len(status) = MaxTasks
    /\ status[1] = "error"
    /\ \A i \in 2..Len(status) : status[i] = "success"
    /\ TaskItem(1) \notin store[1]
    /\ TaskItem(2) \in store[1]

(* C18: the pool drains: every task of the map is started and every task  *)
(* started reaches its outcome, in whatever order the tasks complete;      *)
(* sync() resolves, and only once every task has its outcome.              *)
PoolDrains ==
    /\ \A i \in 1..MaxTasks :
           /\ (i <= Len(status) /\ status[i] = "pending")
                  ~> (i <= Len(status) /\ status[i] = "running")
           /\ (i <= Len(status) /\ status[i] = "running")
                  ~> (i <= Len(status) /\ status[i] \in Finished)
    /\ <>[](pc = "syncDone" /\ \A i \in 1..Len(status) : status[i] \in Finished)
    /\ [](Pending \cup Running # {} => pc # "syncDone")

PoolDrainsReached ==
    /\ pc = "syncDone"
    /\ Len(status) = MaxTasks
    /\ \A i \in 1..MaxOwners : status[i] = "error"
    /\ \A i \in (MaxOwners + 1)..MaxTasks : status[i] = "success"
    /\ faults = MaxTaskFaults

(* The steps of a task: pulled by the pool, then ended with its outcome.   *)
TaskSteps ==
    {<<"pending", "running">>, <<"running", "success">>, <<"running", "error">>}

(* C20: a task changes state only from pending to running and from running *)
(* to success or error, so that success and error are final and a failed   *)
(* task is not started again; and no task is running or finished unless    *)
(* the profile of its user was resolved in this run.                       *)
PerTaskStateMachine ==
    /\ [][\A k \in 1..Len(status) :
              status'[k] # status[k] => <<status[k], status'[k]>> \in TaskSteps]_vars
    /\ [](\A k \in 1..Len(status) :
              status[k] # "pending" => Direct(usersToSync[k].id) >= 1)

(* C9: when no server has the profile of a configured user, every other    *)
(* configured user is resolved and synchronised by the end of the run.     *)
ProfileNotFoundIsolated ==
    (pc \in Terminal /\ missing # {})
        => \A i \in 1..Len(users) : users[i] \notin missing => Synchronised(users[i])

(* C17: every failure of a run (a configured user's profile that no       *)
(* server has, a fetch that returns nothing, a push that rejects, in       *)
(* discovery or in a task) has its 'error' end event delivered to the      *)
(* Logger.                                                                 *)
NoFailureSwallowed ==
    errors >= faults + Cardinality(missing)

----------------------------------------------------------------------------
(* Properties of the profile reconciliation.                               *)

(* C30: when some server returned a profile, the sources of the profile    *)
(* copy are exactly the servers that returned a profile of the newest      *)
(* timestamp, its destinations exactly the other servers marked as         *)
(* destination, and the profile returned has the newest timestamp; the     *)
(* profile of that timestamp was put on the destinations pushed to, and    *)
(* on no other server.                                                     *)
ProfileReconciliation ==
    (pc = "profiled" /\ \E s \in 1..Len(servers) : profileSync.profiles[s] # 0)
        => /\ ~profileSync.result.null
           /\ Range(profileSync.sources) = NewestProfile(profileSync.profiles)
           /\ Range(profileSync.result.destinations) =
                  {s \in 1..Len(servers) :
                      /\ servers[s].isDest
                      /\ s \notin NewestProfile(profileSync.profiles)}
           /\ Len(profileSync.result.destinations)
                  = Cardinality(Range(profileSync.result.destinations))
           /\ ~profileSync.result.threw =>
                  \A s \in 1..Len(servers) :
                      profileSync.profiles[s] <= profileSync.returned
           /\ \A s \in 1..Len(servers) :
                  store[s] = IF s \in profileSync.result.written
                             THEN {ProfileItem(ProfileUser,
                                               latest(profileSync.profiles))}
                             ELSE {}

ProfileReconciliationReached ==
    /\ pc = "profiled"
    /\ Len(servers) = 3
    /\ profileSync.profiles = <<1, 0, MaxProfileTs>>
    /\ \A s \in 1..Len(servers) : servers[s].isDest
    /\ profileSync.sources = <<3>>
    /\ profileSync.result.written = {1, 2}
    /\ profileSync.returned = MaxProfileTs
    /\ store[2] = {ProfileItem(ProfileUser, MaxProfileTs)}

----------------------------------------------------------------------------
(* Properties of the comparators.                                          *)

Sign(x) == IF x > 0 THEN 1 ELSE IF x < 0 THEN -1 ELSE 0

(* x is lexicographically greater than y; a proper prefix is the smaller.  *)
LexGreater(x, y) ==
    \E k \in 1..Len(x) :
        /\ \A i \in 1..(k - 1) : i <= Len(y) /\ x[i] = y[i]
        /\ k > Len(y) \/ x[k] > y[k]

(* C14: for equal timestamps itemListEntry(a, b) > 0 iff a's signature is  *)
(* lexicographically greater than b's (a proper prefix being smaller);     *)
(* for different timestamps its sign is that of the timestamps'            *)
(* difference.                                                             *)
ComparatorOrder ==
    pc = "compared" =>
        IF compared.a.timestampMsUtc = compared.b.timestampMsUtc
        THEN compared.asc > 0
                 <=> LexGreater(compared.a.signature, compared.b.signature)
        ELSE Sign(compared.asc)
                 = Sign(compared.a.timestampMsUtc - compared.b.timestampMsUtc)

ComparatorOrderReached ==
    /\ pc = "compared"
    /\ compared.a.timestampMsUtc = compared.b.timestampMsUtc
    /\ Len(compared.a.signature) > Len(compared.b.signature)
    /\ Len(compared.b.signature) > 0
    /\ SubSeq(compared.a.signature, 1, Len(compared.b.signature)) = compared.b.signature
    /\ compared.asc > 0

(* C15: itemListEntryDesc is antisymmetric, has the sign opposite to       *)
(* itemListEntry, is 0 on equal arguments, and for equal timestamps is > 0 *)
(* iff a's signature is lexicographically smaller than b's.                *)
DescReversesAsc ==
    pc = "compared" =>
        /\ Sign(compared.desc) = -Sign(compared.descRev)
        /\ Sign(compared.desc) = -Sign(compared.asc)
        /\ compared.descSelf = 0
        /\ compared.a.timestampMsUtc = compared.b.timestampMsUtc
               => (compared.desc > 0
                       <=> LexGreater(compared.b.signature, compared.a.signature))

DescReversesAscReached ==
    /\ pc = "compared"
    /\ compared.a.timestampMsUtc = compared.b.timestampMsUtc
    /\ Len(compared.a.signature) = MaxSigLen
    /\ Len(compared.b.signature) = MaxSigLen
    /\ compared.a.signature[1] < compared.b.signature[1]
    /\ compared.desc > 0
    /\ compared.descRev < 0

====
